---- MODULE Spec2Model ----
(***************************************************************************)
(* Model of the byte-range I/O layer of hyparquet (src/src/utils.js and    *)
(* the range helpers of src/test/helpers.js): the caching decorator        *)
(* cachedAsyncBuffer with its canonical cacheKey, and the HTTP range       *)
(* readers byteLengthFromUrl, byteRangesFromUrl and asyncBufferFromUrl.    *)
(*                                                                         *)
(* JavaScript values are represented as follows.                           *)
(*   undefined / null        the empty tuple <<>>                          *)
(*   a defined number n      the one-element tuple <<n>> when the value    *)
(*                           may also be undefined                         *)
(*   a range [start, end]    the tuple <<start, end>>                      *)
(*   a string or ArrayBuffer a sequence of one-byte strings, since the     *)
(*                           'ascii' TextDecoder maps bytes to characters  *)
(*                           one to one                                    *)
(*   a cache key             a TLA+ string built as the template literal   *)
(*                           builds it                                     *)
(***************************************************************************)
EXTENDS Integers, Sequences, FiniteSets, TLC

VARIABLES
  byteLength,   \* cachedAsyncBuffer: byteLength of the wrapped file
  cache,        \* cachedAsyncBuffer: per instance, the Map key -> promise
  promises,     \* promises returned by the wrapped slice, in call order
  lastCall,     \* the most recent call of the decorator's slice
  calls,        \* number of calls of the decorator's slice so far
  file,         \* the bytes of the file behind the url or the file path
  op,           \* the range reader that was called
  args,         \* its arguments
  pc,           \* where the call stands: idle, awaiting, done or failed
  requests,     \* the fetch calls issued so far, in order
  response,     \* the response the pending fetch resolved to
  result,       \* what the call returned or threw
  handles,      \* number of file handles that are open
  buffers,      \* largeFileToAsyncBuffer.sliceBatch: the buffers pushed so far
  groups,       \* remoteFileToAsyncBuffer.sliceBatch: the promise of each group
  order,        \* the groups whose request completed, in completion order
  table,        \* the parquet file of the pushdown reads: its row groups
  query,        \* the columns and the predicate of a pushdown read
  scan,         \* what a pushdown read has located so far
  reads,        \* the slice and sliceAll calls of a pushdown read, in order
  loopIndex,    \* chunk: the loop variable i
  chunkList     \* chunk: the chunks pushed so far

cacheVars == <<byteLength, cache, promises, lastCall, calls>>

ioVars == <<file, op, args, pc, requests, response, result, handles, buffers,
           groups, order>>

batchVars == <<groups, order>>

fsVars == <<handles, buffers>>

scanVars == <<table, query, scan, reads>>

loopVars == <<loopIndex, chunkList>>

vars == <<byteLength, cache, promises, lastCall, calls,
          file, op, args, pc, requests, response, result, handles, buffers,
          groups, order, table, query, scan, reads, loopIndex, chunkList>>

----------------------------------------------------------------------------
(* Bounds *)

MaxSize == 1      \* largest byteLength of the cached file
MaxStart == 1     \* slice arguments range over -MaxStart..MaxStart
MaxCalls == 2     \* calls of the decorator's slice in one behaviour
MaxFileLen == 2   \* length of the file behind the range readers
MaxRanges == 2    \* entries of a ranges list
MaxParts == 2     \* parts of a multipart response
MaxTokens == 5     \* pieces of a text body
MaxArray == 4      \* length of the array handed to extent
MaxValue == 2      \* largest value in such an array
MaxGroups == 2     \* row groups of the parquet file
MaxRows == 2       \* rows of the parquet file
MaxBatch == 201   \* entries of a list given to remoteFileToAsyncBuffer's sliceBatch

----------------------------------------------------------------------------
(* JavaScript values *)

Undefined == <<>>

Def(n) == <<n>>

Val(x) == x[1]

----------------------------------------------------------------------------
(* cachedAsyncBuffer and cacheKey *)

Instances == {1, 2}

Starts == (0 - MaxStart)..MaxStart

Ends == {Undefined} \cup {Def(e) : e \in 0..MaxStart}

Thrown(msg) == [threw |-> TRUE, value |-> msg]

Returned(v) == [threw |-> FALSE, value |-> v]

\* `${a},${b}`
RangeKey(a, b) == ToString(a) \o "," \o ToString(b)

\* `${a},`
OpenKey(a) == ToString(a) \o ","

\* cacheKey without the rejection of a suffix range that carries an end
cacheKeySuffixWithEnd(start, end, size) ==
  IF start < 0
    THEN IF size = Undefined THEN Returned(OpenKey(start))
         ELSE Returned(RangeKey(Val(size) + start, Val(size)))
  ELSE IF end # Undefined
    THEN IF start > Val(end) THEN Thrown("invalid empty range")
         ELSE Returned(RangeKey(start, Val(end)))
  ELSE IF size = Undefined THEN Returned(OpenKey(start))
  ELSE Returned(RangeKey(start, Val(size)))

\* cacheKey that keeps the negative start of a suffix range in the key
cacheKeySuffixUnresolved(start, end, size) ==
  IF start < 0
    THEN IF end # Undefined THEN Thrown("invalid suffix range")
         ELSE IF size = Undefined THEN Returned(OpenKey(start))
         ELSE Returned(RangeKey(start, Val(size)))
  ELSE IF end # Undefined
    THEN IF start > Val(end) THEN Thrown("invalid empty range")
         ELSE Returned(RangeKey(start, Val(end)))
  ELSE IF size = Undefined THEN Returned(OpenKey(start))
  ELSE Returned(RangeKey(start, Val(size)))

cacheKey(start, end, size) ==
  IF start < 0
    THEN IF end # Undefined THEN Thrown("invalid suffix range")
         ELSE IF size = Undefined THEN Returned(OpenKey(start))
         ELSE Returned(RangeKey(Val(size) + start, Val(size)))
  ELSE IF end # Undefined
    THEN IF start > Val(end) THEN Thrown("invalid empty range")
         ELSE Returned(RangeKey(start, Val(end)))
  ELSE IF size = Undefined THEN Returned(OpenKey(start))
  ELSE Returned(RangeKey(start, Val(size)))

\* cache.get(key): the cached promise, or undefined
CacheGet(c, key) == IF key \in DOMAIN c THEN Def(c[key]) ELSE Undefined

\* cache.set that stores nothing
CacheSetDropped(c, key, p) == c

\* cache.set(key, promise)
CacheSet(c, key, p) == [k \in DOMAIN c \cup {key} |-> IF k = key THEN p ELSE c[k]]

EmptyMap == [k \in {} |-> 0]

NoCall == [inst |-> 0, start |-> 0, end |-> Undefined, outcome |-> "none",
           key |-> "", promise |-> 0]

\* The key under which the wrapped read of a promise was cached.
PromiseKey(p) == cacheKey(p.start, p.end, Def(byteLength)).value

NoArgs == [ranges |-> <<>>, trustContentType |-> FALSE, start |-> 0, end |-> <<>>,
           array |-> <<>>, chunkSize |-> 0]

NoResponse == [kind |-> "none", ok |-> FALSE, hasBody |-> FALSE, contentType |-> <<>>,
               contentRange |-> <<>>, contentLength |-> <<>>,
               parts |-> <<>>, body |-> <<>>]

NoResult == [threw |-> FALSE, value |-> <<>>]

\* the range readers are not in use
\* no pushdown read has begun and there is no parquet file
NoQuery == [columns |-> <<>>, predicateValues |-> <<>>, minValue |-> 0, maxValue |-> 0,
            suite |-> "none"]

NoScan == [indexLocations |-> <<>>, pages |-> <<>>]

IdleScan ==
  /\ loopIndex = 0
  /\ chunkList = <<>>
  /\ table = <<>>
  /\ query = NoQuery
  /\ scan = NoScan
  /\ reads = <<>>

IdleIO ==
  /\ IdleScan
  /\ file = <<>>
  /\ op = "none"
  /\ args = NoArgs
  /\ pc = "idle"
  /\ requests = <<>>
  /\ response = NoResponse
  /\ result = NoResult
  /\ handles = 0
  /\ buffers = <<>>
  /\ groups = <<>>
  /\ order = <<>>

InitCache ==
  /\ byteLength \in 0..MaxSize
  /\ cache = [i \in Instances |-> EmptyMap]
  /\ promises = <<>>
  /\ lastCall = NoCall
  /\ calls = 0
  /\ IdleIO

\* slice on a decorator whose Map is one for the whole process: an entry
\* set through one instance is set for every instance
cachedSliceShared(inst, start, end) ==
  /\ calls < MaxCalls
  /\ calls' = calls + 1
  /\ UNCHANGED <<byteLength, ioVars, scanVars>>
  /\ LET k == cacheKey(start, end, Def(byteLength))
         cached == CacheGet(cache[inst], k.value)
         call == [inst |-> inst, start |-> start, end |-> end]
     IN IF k.threw
          THEN /\ lastCall' = call @@ [outcome |-> "threw", key |-> "", promise |-> 0]
               /\ UNCHANGED <<cache, promises>>
        ELSE IF cached # Undefined
          THEN /\ lastCall' = call @@ [outcome |-> "hit", key |-> k.value,
                                       promise |-> Val(cached)]
               /\ UNCHANGED <<cache, promises>>
        ELSE /\ promises' = Append(promises,
                   [inst |-> inst, start |-> start, end |-> end, state |-> "pending"])
             /\ cache' = [i \in Instances |-> CacheSet(cache[i], k.value, Len(promises'))]
             /\ lastCall' = call @@ [outcome |-> "miss", key |-> k.value,
                                     promise |-> Len(promises')]
  /\ UNCHANGED loopVars

\* cachedAsyncBuffer(...).slice(start, end) on instance inst
cachedSlice(inst, start, end) ==
  /\ calls < MaxCalls
  /\ calls' = calls + 1
  /\ UNCHANGED <<byteLength, ioVars, scanVars>>
  /\ LET k == cacheKey(start, end, Def(byteLength))
         cached == CacheGet(cache[inst], k.value)
         call == [inst |-> inst, start |-> start, end |-> end]
     IN IF k.threw
          THEN /\ lastCall' = call @@ [outcome |-> "threw", key |-> "", promise |-> 0]
               /\ UNCHANGED <<cache, promises>>
        ELSE IF cached # Undefined
          THEN /\ lastCall' = call @@ [outcome |-> "hit", key |-> k.value,
                                       promise |-> Val(cached)]
               /\ UNCHANGED <<cache, promises>>
        ELSE /\ promises' = Append(promises,
                   [inst |-> inst, start |-> start, end |-> end, state |-> "pending"])
             /\ cache' = [cache EXCEPT ![inst] = CacheSet(@, k.value, Len(promises'))]
             /\ lastCall' = call @@ [outcome |-> "miss", key |-> k.value,
                                     promise |-> Len(promises')]
  /\ UNCHANGED loopVars

\* the wrapped read of promise p completes
resolveRead(p) ==
  /\ promises[p].state = "pending"
  /\ promises' = [promises EXCEPT ![p].state = "fulfilled"]
  /\ UNCHANGED <<byteLength, cache, lastCall, calls, ioVars, scanVars>>
  /\ UNCHANGED loopVars

\* the wrapped read of promise p fails
rejectRead(p) ==
  /\ promises[p].state = "pending"
  /\ promises' = [promises EXCEPT ![p].state = "rejected"]
  /\ UNCHANGED <<byteLength, cache, lastCall, calls, ioVars, scanVars>>
  /\ UNCHANGED loopVars

NextCache ==
  \/ \E inst \in Instances, start \in Starts, end \in Ends : cachedSlice(inst, start, end)
  \/ \E p \in 1..Len(promises) : resolveRead(p)
  \/ \E p \in 1..Len(promises) : rejectRead(p)

SpecCache == InitCache /\ [][NextCache]_vars

----------------------------------------------------------------------------
(* Strings and buffers: String.prototype and ArrayBuffer.prototype methods *)

Min(S) == CHOOSE x \in S : \A y \in S : x <= y

Max(S) == CHOOSE x \in S : \A y \in S : x >= y

CRLF == <<"\r", "\n">>

\* WhiteSpace and LineTerminator characters, as used by trim() and \s
IsSpace(c) == c \in {" ", "\t", "\n", "\r", "\f", "<A0>"}

\* line terminators, which '.' does not match and at which ^ and $ match
\* under the m flag
IsLineTerminator(c) == c \in {"\n", "\r"}

IsDigit(c) == c \in {"0", "1", "2", "3", "4", "5", "6", "7", "8", "9"}

DigitChars == <<"0", "1", "2", "3", "4", "5", "6", "7", "8", "9">>

UpperCaseLetters == {"A", "B", "C", "D", "E", "F", "G", "H", "I", "J", "K", "L", "M", "N", "O", "P", "Q", "R", "S", "T", "U", "V", "W", "X", "Y", "Z"}

\* the case folding of the i flag and of toLowerCase()
LowerChar(c) ==
  IF c \notin UpperCaseLetters THEN c ELSE
  CASE c = "A" -> "a"
    [] c = "B" -> "b"
    [] c = "C" -> "c"
    [] c = "D" -> "d"
    [] c = "E" -> "e"
    [] c = "F" -> "f"
    [] c = "G" -> "g"
    [] c = "H" -> "h"
    [] c = "I" -> "i"
    [] c = "J" -> "j"
    [] c = "K" -> "k"
    [] c = "L" -> "l"
    [] c = "M" -> "m"
    [] c = "N" -> "n"
    [] c = "O" -> "o"
    [] c = "P" -> "p"
    [] c = "Q" -> "q"
    [] c = "R" -> "r"
    [] c = "S" -> "s"
    [] c = "T" -> "t"
    [] c = "U" -> "u"
    [] c = "V" -> "v"
    [] c = "W" -> "w"
    [] c = "X" -> "x"
    [] c = "Y" -> "y"
    [] c = "Z" -> "z"
    [] OTHER -> c

ToLowerCase(s) == [i \in 1..Len(s) |-> LowerChar(s[i])]

\* s has p at the 0-based offset i
StartsWithAt(s, p, i) ==
  /\ i >= 0
  /\ i + Len(p) <= Len(s)
  /\ \A k \in 1..Len(p) : s[i + k] = p[k]

\* s.indexOf(p, from): 0-based offset of the first occurrence, or -1
IndexOf(s, p, from) ==
  LET f == IF from < 0 THEN 0 ELSE IF from > Len(s) THEN Len(s) ELSE from
      found == {i \in f..(Len(s) - Len(p)) : StartsWithAt(s, p, i)}
  IN IF Len(p) = 0 THEN f
     ELSE IF found = {} THEN -1
     ELSE Min(found)

\* s.includes(p)
Includes(s, p) == IndexOf(s, p, 0) # -1

\* s.endsWith(p)
EndsWith(s, p) == Len(p) <= Len(s) /\ StartsWithAt(s, p, Len(s) - Len(p))

\* s.substring(a, b) for 0 <= a <= b <= s.length
Substring(s, a, b) == SubSeq(s, a + 1, b)

\* s.split(sep) for a non-empty separator
RECURSIVE Split(_, _)
Split(s, sep) ==
  LET i == IndexOf(s, sep, 0)
  IN IF i = -1 THEN <<s>>
     ELSE <<Substring(s, 0, i)>> \o Split(Substring(s, i + Len(sep), Len(s)), sep)

\* s.trim()
\* the number of whitespace characters s begins with
LeadingSpaces(s) ==
  CHOOSE n \in 0..Len(s) :
    /\ \A i \in 1..n : IsSpace(s[i])
    /\ n = Len(s) \/ ~IsSpace(s[n + 1])

\* the number of whitespace characters s ends with
TrailingSpaces(s) ==
  CHOOSE n \in 0..Len(s) :
    /\ \A i \in (Len(s) - n + 1)..Len(s) : IsSpace(s[i])
    /\ n = Len(s) \/ ~IsSpace(s[Len(s) - n])

Trim(s) ==
  IF LeadingSpaces(s) = Len(s) THEN <<>>
  ELSE SubSeq(s, LeadingSpaces(s) + 1, Len(s) - TrailingSpaces(s))

\* p.replace(/\r\n$/, '')
StripCRLF(p) == IF EndsWith(p, CRLF) THEN SubSeq(p, 1, Len(p) - 2) ELSE p

\* the decimal digits of a natural number, as a template literal prints it
RECURSIVE Digits(_)
Digits(n) == IF n < 10 THEN <<DigitChars[n + 1]>>
             ELSE Digits(n \div 10) \o <<DigitChars[(n % 10) + 1]>>

DigitValue(c) == (CHOOSE k \in 1..10 : DigitChars[k] = c) - 1

\* +str and parseInt(str) for a string of decimal digits
RECURSIVE ToNumber(_)
ToNumber(d) == IF Len(d) = 0 THEN 0
               ELSE 10 * ToNumber(SubSeq(d, 1, Len(d) - 1)) + DigitValue(d[Len(d)])

\* the longest run of digits of s that starts at the 0-based offset i
DigitRun(s, i) ==
  IF i > Len(s) THEN <<>>
  ELSE Substring(s, i, CHOOSE j \in i..Len(s) :
                         /\ \A k \in (i + 1)..j : IsDigit(s[k])
                         /\ j = Len(s) \/ ~IsDigit(s[j + 1]))

\* buffer.slice(begin, end) of an ArrayBuffer
BufSlice(b, begin, end) ==
  LET len == Len(b)
      first == IF begin < 0 THEN Max({len + begin, 0}) ELSE Min({begin, len})
      final == IF end < 0 THEN Max({len + end, 0}) ELSE Min({end, len})
  IN IF final > first THEN SubSeq(b, first + 1, final) ELSE <<>>

\* the character a byte decodes to under the label 'ascii' (windows-1252);
\* every byte decodes to one character, so offsets are preserved
DecodeByte(b) ==
  CASE b = "<80>" -> "<20AC>"
    [] OTHER -> b

\* new TextDecoder('ascii', { fatal: true }).decode(buffer)
TextDecode(buffer) == [i \in 1..Len(buffer) |-> DecodeByte(buffer[i])] \o <<>>

----------------------------------------------------------------------------
(* byteRangesFromUrl: the parsing of the response *)

Null == <<>>

Dashes == <<"-", "-">>

\* the longest run of non-whitespace characters of s at the 0-based offset i
NonSpaceRun(s, i) ==
  IF i > Len(s) THEN <<>>
  ELSE Substring(s, i, CHOOSE j \in i..Len(s) :
                         /\ \A k \in (i + 1)..j : ~IsSpace(s[k])
                         /\ j = Len(s) \/ IsSpace(s[j + 1]))

\* /^--([^\s]+)$/m matches s at the 0-based offset i
BoundaryMatchAt(s, i) ==
  /\ i = 0 \/ IsLineTerminator(s[i])
  /\ StartsWithAt(s, Dashes, i)
  /\ LET run == NonSpaceRun(s, i + 2)
         after == i + 2 + Len(run)
     IN /\ Len(run) >= 1
        /\ after = Len(s) \/ IsLineTerminator(s[after + 1])

\* s.match(/^--([^\s]+)$/m): <<index, group 1>> of the leftmost match, or null
BoundaryMatch(s) ==
  LET c == {i \in 0..(Len(s) - 1) : BoundaryMatchAt(s, i)}
      index == Min(c)
  IN IF c = {} THEN Null ELSE <<index, NonSpaceRun(s, index + 2)>>

\* the sniffing without the look at how the body ends
SniffBoundaryAnyEnd(responseText) ==
  LET trimmed == Trim(responseText)
      boundaryMatch == BoundaryMatch(trimmed)
  IN IF boundaryMatch # Null /\ boundaryMatch[1] = 0
       THEN boundaryMatch[2]
       ELSE Null

\* the boundary sniffed from the body when the content type is not trusted
SniffBoundary(responseText) ==
  LET trimmed == Trim(responseText)
      boundaryMatch == BoundaryMatch(trimmed)
  IN IF /\ boundaryMatch # Null
        /\ boundaryMatch[1] = 0
        /\ EndsWith(trimmed, Dashes \o boundaryMatch[2] \o Dashes)
       THEN boundaryMatch[2]
       ELSE Null

BoundaryParam == <<"b", "o", "u", "n", "d", "a", "r", "y", "=">>

\* the boundary taken from the content-type header when it is trusted
HeaderBoundary(contentType) ==
  LET value == IF contentType = Null THEN <<>> ELSE contentType
  IN IF Includes(value, BoundaryParam)
       THEN Trim(Split(value, BoundaryParam)[2])
       ELSE Null

ContentRangeName == <<"c", "o", "n", "t", "e", "n", "t", "-", "r", "a", "n", "g", "e", ":">>

BytesUnit == <<"b", "y", "t", "e", "s", " ">>

\* /content-range:.*bytes (\d+)-(\d+)/i can match headers with
\* 'content-range:' at offset i and 'bytes ' at offset j
\* s has p at the 0-based offset i, letter case ignored (p in lower case)
StartsWithAtIgnoreCase(s, p, i) ==
  /\ i >= 0
  /\ i + Len(p) <= Len(s)
  /\ \A k \in 1..Len(p) : LowerChar(s[i + k]) = p[k]

ContentRangeAt(headers, i, j) ==
  /\ j >= i + Len(ContentRangeName)
  /\ StartsWithAtIgnoreCase(headers, BytesUnit, j)
  /\ StartsWithAtIgnoreCase(headers, ContentRangeName, i)
  /\ \A k \in (i + Len(ContentRangeName) + 1)..j : ~IsLineTerminator(headers[k])
  /\ LET first == DigitRun(headers, j + Len(BytesUnit))
         dash == j + Len(BytesUnit) + Len(first)
     IN /\ Len(first) >= 1
        /\ StartsWithAt(headers, <<"-">>, dash)
        /\ Len(DigitRun(headers, dash + 1)) >= 1

\* headers.match(/content-range:.*bytes (\d+)-(\d+)/i) || []: the two groups
\* of the leftmost match with the longest '.*', or the empty array
ContentRangeMatch(headers) ==
  LET offsets == 0..Len(headers)
      names == {i \in offsets : StartsWithAtIgnoreCase(headers, ContentRangeName, i)}
      c == {i \in names : \E j \in offsets : ContentRangeAt(headers, i, j)}
  IN IF c = {} THEN <<>>
     ELSE LET i == Min(c)
              j == Max({k \in offsets : ContentRangeAt(headers, i, k)})
              first == DigitRun(headers, j + Len(BytesUnit))
          IN <<first, DigitRun(headers, j + Len(BytesUnit) + Len(first) + 1)>>

\* responseText.split(`--${boundary}`).filter(...).map(...)
MultipartParts(responseText, boundary) ==
  LET pieces == Split(responseText, Dashes \o boundary)
      kept == SelectSeq(pieces,
                LAMBDA part : Trim(part) # <<>> /\ ~Includes(part, Dashes \o CRLF))
  IN [k \in 1..Len(kept) |->
        LET p == Split(kept[k], CRLF \o CRLF)
        IN [n \in 1..Len(p) |-> StripCRLF(p[n])]]

\* ranges.forEach of the multipart loop: the requested ranges that the part
\* [start, end) contains are sliced out of partBuffer
\* the assignment with a test that only looks at where the range begins
AssignFromPartOverlap(byteRanges, ranges, start, end, partBuffer) ==
  [i \in 1..Len(ranges) |->
     IF ranges[i] # Null /\ start <= ranges[i][1] /\ ranges[i][1] < end
       THEN LET offset == ranges[i][1] - start
                length == ranges[i][2] - ranges[i][1]
            IN BufSlice(partBuffer, offset, offset + length)
       ELSE byteRanges[i]]

\* ranges.forEach(...) for one part: every requested range inside
\* [start, end) gets its bytes out of the part
AssignFromPart(byteRanges, ranges, start, end, partBuffer) ==
  [i \in 1..Len(ranges) |->
     IF ranges[i] # Null /\ start <= ranges[i][1] /\ ranges[i][2] <= end
       THEN LET offset == ranges[i][1] - start
                length == ranges[i][2] - ranges[i][1]
            IN BufSlice(partBuffer, offset, offset + length)
       ELSE byteRanges[i]]

\* the loop over parts, from part k on, with the loop variable position
RECURSIVE PartsLoop(_, _, _, _, _, _, _)
PartsLoop(parts, k, position, byteRanges, ranges, responseText, responseBuffer) ==
  IF k > Len(parts) THEN Returned(byteRanges)
  ELSE
    LET headers == parts[k][1]
        m == ContentRangeMatch(headers)
    IN IF m = <<>>
         THEN PartsLoop(parts, k + 1, position, byteRanges, ranges,
                        responseText, responseBuffer)
       ELSE IF Len(parts[k]) < 2
         THEN Thrown("TypeError: content is undefined")
       ELSE
         LET content == parts[k][2]
             start == ToNumber(m[1])
             end == ToNumber(m[2]) + 1
             contentOffset == IndexOf(responseText, content, position + Len(headers))
             partBuffer == BufSlice(responseBuffer, contentOffset,
                                    contentOffset + Len(content))
         IN PartsLoop(parts, k + 1, contentOffset + Len(content),
                      AssignFromPart(byteRanges, ranges, start, end, partBuffer),
                      ranges, responseText, responseBuffer)

\* byteRangesFromUrl from the line after the status check: the result for
\* the requested ranges and the body and content type of an ok response
ParseRanges(ranges, responseBuffer, contentType, trustContentType) ==
  LET byteRanges == [i \in 1..Len(ranges) |-> <<>>]
      responseText == TextDecode(responseBuffer)
      boundary == IF trustContentType THEN HeaderBoundary(contentType)
                  ELSE SniffBoundary(responseText)
  IN IF boundary = Null \/ boundary = <<>>
       THEN Returned([i \in 1..Len(ranges) |->
                        IF ranges[i] # Null
                          THEN BufSlice(responseBuffer, ranges[i][1], ranges[i][2])
                          ELSE byteRanges[i]])
       ELSE PartsLoop(MultipartParts(responseText, boundary), 1, 0, byteRanges,
                      ranges, responseText, responseBuffer)

----------------------------------------------------------------------------
(* The HTTP server behind fetch *)

\* the byte values a file is made of: CR, LF, '-', a letter and a byte
\* above 0x7f
ByteValues == {"\r", "\n", "-", "a", "<80>"}

Files == [1..MaxFileLen -> ByteValues]

\* the non-empty byte ranges [start, end) of the file
FileRanges == {r \in (0..MaxFileLen) \X (0..MaxFileLen) : r[1] < r[2]}

RECURSIVE SeqsUpTo(_, _)
SeqsUpTo(S, n) ==
  IF n = 0 THEN {<<>>}
  ELSE LET shorter == SeqsUpTo(S, n - 1)
       IN shorter \cup {Append(q, x) : q \in {t \in shorter : Len(t) = n - 1}, x \in S}

\* the ranges arguments: lists of ranges and nulls
\* the start and end arguments of slice
FileStarts == (0 - MaxFileLen)..MaxFileLen

FileEnds == {Undefined} \cup {Def(e) : e \in 0..MaxFileLen}

RangeLists == SeqsUpTo(FileRanges \cup {Null}, MaxRanges)

\* `${n}` for an integer
NumStr(n) == IF n < 0 THEN <<"-">> \o Digits(0 - n) ELSE Digits(n)

\* list.join(sep)
RECURSIVE Join(_, _)
Join(list, sep) ==
  IF Len(list) = 0 THEN <<>>
  ELSE IF Len(list) = 1 THEN list[1]
  ELSE LET half == Len(list) \div 2
       IN Join(SubSeq(list, 1, half), sep) \o sep
            \o Join(SubSeq(list, half + 1, Len(list)), sep)

\* the boundary the server separates the parts with
ServerBoundary == <<"b">>

MultipartType == <<"m", "u", "l", "t", "i", "p", "a", "r", "t", "/", "b", "y", "t", "e", "r", "a", "n", "g", "e", "s", ";", " ", "b", "o", "u", "n", "d", "a", "r", "y", "=">> \o ServerBoundary

OctetStreamType == <<"a", "p", "p", "l", "i", "c", "a", "t", "i", "o", "n", "/", "o", "c", "t", "e", "t", "-", "s", "t", "r", "e", "a", "m">>

ContentRangeHeader == <<"C", "o", "n", "t", "e", "n", "t", "-", "R", "a", "n", "g", "e", ":", " ">>

ContentTypeHeader == <<"C", "o", "n", "t", "e", "n", "t", "-", "T", "y", "p", "e", ":", " ">>

\* Content-Range value 'bytes start-end/total' for the bytes [r[1], r[2])
ContentRangeValue(r, total) ==
  BytesUnit \o NumStr(r[1]) \o <<"-">> \o NumStr(r[2] - 1) \o <<"/">> \o NumStr(total)

\* the parts a multipart response is made of: the byte range each carries
\* and whether it declares it in a Content-Range header
Parts == [range : FileRanges, declared : BOOLEAN]

PartLists ==
  {q \in SeqsUpTo(Parts, MaxParts) :
     \A k \in 1..(Len(q) - 1) : q[k].range[2] <= q[k + 1].range[1]}

\* one body part: delimiter, header, empty line, payload
BodyPart(f, part) ==
  Dashes \o ServerBoundary \o CRLF
    \o (IF part.declared
          THEN ContentRangeHeader \o ContentRangeValue(part.range, Len(f))
          ELSE ContentTypeHeader \o OctetStreamType)
    \o CRLF \o CRLF
    \o BufSlice(f, part.range[1], part.range[2]) \o CRLF

\* a multipart/byteranges body for the parts, closed by the end delimiter
RECURSIVE MultipartBody(_, _)
MultipartBody(f, parts) ==
  IF Len(parts) = 0 THEN Dashes \o ServerBoundary \o Dashes \o CRLF
  ELSE BodyPart(f, Head(parts)) \o MultipartBody(f, Tail(parts))

\* the requested ranges, without the nulls
NonNull(ranges) == SelectSeq(ranges, LAMBDA range : range # Null)

\* the requested bytes one after the other, in request order
RECURSIVE ConcatRanges(_, _)
ConcatRanges(f, ranges) ==
  IF Len(ranges) = 0 THEN <<>>
  ELSE BufSlice(f, Head(ranges)[1], Head(ranges)[2]) \o ConcatRanges(f, Tail(ranges))

\* ranges.some(Boolean)
SomeRange(ranges) == \E i \in 1..Len(ranges) : ranges[i] # Null

\* what the server may answer to a GET with a range header: a failed
\* status, a multipart body, one body with the requested bytes in order
\* (206), or the whole file (200)
ResponseChoices ==
  {<<"status", <<>> >>, <<"concat", <<>> >>, <<"whole", <<>> >>}
    \cup {<<"multipart", q>> : q \in PartLists}

\* the response of the given kind to a request for the given ranges
RangeResponse(f, ranges, choice) ==
  CASE choice[1] = "status" -> [NoResponse EXCEPT !.kind = "status"]
    [] choice[1] = "multipart" ->
         [NoResponse EXCEPT !.kind = "multipart", !.ok = TRUE, !.hasBody = TRUE,
            !.contentType = MultipartType, !.parts = choice[2],
            !.body = MultipartBody(f, choice[2])]
    [] choice[1] = "concat" ->
         [NoResponse EXCEPT !.kind = "concat", !.ok = TRUE, !.hasBody = TRUE,
            !.contentType = OctetStreamType,
            !.contentRange = IF SomeRange(ranges)
                               THEN ContentRangeValue(NonNull(ranges)[1], Len(f))
                               ELSE <<>>,
            !.body = ConcatRanges(f, NonNull(ranges))]
    [] choice[1] = "whole" ->
         [NoResponse EXCEPT !.kind = "whole", !.ok = TRUE, !.hasBody = TRUE,
            !.contentType = OctetStreamType, !.body = f]

----------------------------------------------------------------------------
(* byteRangesFromUrl *)

BytesEquals == <<"b", "y", "t", "e", "s", "=">>

\* the header if each range were written with its exclusive end
RangeHeaderExclusiveEnd(ranges) ==
  LET present == NonNull(ranges)
  IN BytesEquals
       \o Join([k \in 1..Len(present) |->
                  NumStr(present[k][1]) \o <<"-">> \o NumStr(present[k][2])],
               <<",">>)

\* `bytes=${rangeHeader}`: the non-null ranges as start-(end - 1), joined
RangeHeader(ranges) ==
  LET present == NonNull(ranges)
  IN BytesEquals
       \o Join([k \in 1..Len(present) |->
                  NumStr(present[k][1]) \o <<"-">> \o NumStr(present[k][2] - 1)],
               <<",">>)

\* byteRangesFromUrl(url, ranges, requestInit, trustContentType), up to the
\* await of fetch
byteRangesFromUrl(ranges, trustContentType) ==
  /\ pc = "idle"
  /\ op' = "byteRangesFromUrl"
  /\ args' = [NoArgs EXCEPT !.ranges = ranges, !.trustContentType = trustContentType]
  /\ IF ~SomeRange(ranges)
       THEN /\ result' = Returned([i \in 1..Len(ranges) |-> <<>>])
            /\ pc' = "done"
            /\ UNCHANGED requests
       ELSE /\ requests' = Append(requests,
                             [method |-> "GET", range |-> RangeHeader(ranges)])
            /\ pc' = "awaiting"
            /\ UNCHANGED result
  /\ UNCHANGED <<file, response, fsVars, batchVars, cacheVars, scanVars>>
  /\ UNCHANGED loopVars

\* byteRangesFromUrl after fetch resolved to a response
byteRangesFromUrlResponse ==
  /\ pc = "awaiting"
  /\ op = "byteRangesFromUrl"
  /\ \E choice \in ResponseChoices :
     LET resp == RangeResponse(file, args.ranges, choice) IN
       /\ response' = resp
       /\ IF ~resp.ok
            THEN /\ result' = Thrown("fetch failed")
                 /\ pc' = "failed"
            ELSE /\ result' = ParseRanges(args.ranges, resp.body, resp.contentType,
                                          args.trustContentType)
                 /\ pc' = IF result'.threw THEN "failed" ELSE "done"
  /\ UNCHANGED <<file, op, args, requests, fsVars, batchVars, cacheVars, scanVars>>
  /\ UNCHANGED loopVars

\* the bodies of a server that answers with text of its own: up to
\* MaxTokens pieces out of a delimiter line, a close delimiter, a line
\* break, a blank, a letter and a dash
BodyTokens ==
  {<<"-", "-", "a">>, <<"-", "-", "a", "-", "-">>, <<"\n">>, <<" ">>, <<"a">>, <<"-">>}

TextBodies(n) == {Join(q, <<>>) : q \in SeqsUpTo(BodyTokens, n)}

\* the range lists byteRangesFromUrl is called with against that server
TextRangeLists == {<<<<0, 1>>>>, <<<<1, 3>>, Null, <<0, 5>>>>}

\* byteRangesFromUrl after fetch resolved to a response with status ok and
\* a body that is any text
byteRangesFromUrlText ==
  /\ pc = "awaiting"
  /\ op = "byteRangesFromUrl"
  /\ \E body \in TextBodies(MaxTokens) :
     LET resp == [NoResponse EXCEPT !.kind = "text", !.ok = TRUE, !.hasBody = TRUE,
                    !.contentType = OctetStreamType, !.body = body] IN
       /\ response' = resp
       /\ result' = ParseRanges(args.ranges, resp.body, resp.contentType,
                                args.trustContentType)
       /\ pc' = IF result'.threw THEN "failed" ELSE "done"
  /\ UNCHANGED <<file, op, args, requests, fsVars, batchVars, cacheVars, scanVars>>
  /\ UNCHANGED loopVars

----------------------------------------------------------------------------
(* getBytesFromRanges, the multi-range reader of the test helpers *)

OctetStreamName == <<"a", "p", "p", "l", "i", "c", "a", "t", "i", "o", "n", "/", "o", "c", "t", "e", "t", "-", "s", "t", "r", "e", "a", "m">>

ByteRangesName == <<"m", "u", "l", "t", "i", "p", "a", "r", "t", "/", "b", "y", "t", "e", "r", "a", "n", "g", "e", "s">>

UndefinedText == <<"u", "n", "d", "e", "f", "i", "n", "e", "d">>

ColonSpace == <<":", " ">>

ContentRangeKey == <<"c", "o", "n", "t", "e", "n", "t", "-", "r", "a", "n", "g", "e">>

\* contentRange.match(/bytes (\d+)-(\d+)\/(\d+)/) at the 0-based offset j
BytesRangeAt(v, j) ==
  /\ StartsWithAt(v, BytesUnit, j)
  /\ LET first == DigitRun(v, j + Len(BytesUnit))
         dash == j + Len(BytesUnit) + Len(first)
         last == DigitRun(v, dash + 1)
         slash == dash + 1 + Len(last)
     IN /\ Len(first) >= 1
        /\ StartsWithAt(v, <<"-">>, dash)
        /\ Len(last) >= 1
        /\ StartsWithAt(v, <<"/">>, slash)
        /\ Len(DigitRun(v, slash + 1)) >= 1

\* getRangeIndex(ranges, contentRange): the index of the first requested
\* range the header names (0-based, -1 if none); it throws when the header
\* is missing or does not match
getRangeIndex(ranges, contentRange) ==
  LET v == IF contentRange = Null THEN <<>> ELSE contentRange
      found == {j \in 0..Len(v) : BytesRangeAt(v, j)}
  IN IF contentRange = Null \/ found = {}
       THEN Thrown("TypeError: match is not iterable")
       ELSE LET j == Min(found)
                first == DigitRun(v, j + Len(BytesUnit))
                last == DigitRun(v, j + Len(BytesUnit) + Len(first) + 1)
                hits == {i \in 1..Len(ranges) :
                           /\ ranges[i] # Null
                           /\ ranges[i][1] = ToNumber(first)
                           /\ ranges[i][2] = ToNumber(last) + 1}
            IN Returned(IF hits = {} THEN -1 ELSE Min(hits) - 1)

\* the assignment if an index of -1 added an element to the array
SetBufferAppend(arrayBuffers, rangeIndex, buffer) ==
  IF rangeIndex = -1 THEN Append(arrayBuffers, buffer)
  ELSE [i \in 1..Len(arrayBuffers) |->
          IF i = rangeIndex + 1 THEN buffer ELSE arrayBuffers[i]]

\* arrayBuffers[rangeIndex] = buffer; an index of -1 leaves the array as it is
SetBuffer(arrayBuffers, rangeIndex, buffer) ==
  [i \in 1..Len(arrayBuffers) |->
     IF i = rangeIndex + 1 THEN buffer ELSE arrayBuffers[i]]

\* parsedHeaders['content-range'] of a part header: the value of the last
\* line whose key is content-range in any letter case, or undefined
PartContentRange(header) ==
  LET lines == SelectSeq(Split(header, CRLF), LAMBDA line : line # <<>>)
      named == {n \in 1..Len(lines) :
                  ToLowerCase(Split(lines[n], ColonSpace)[1]) \o <<>> = ContentRangeKey}
  IN IF named = {} THEN Null
     ELSE LET fields == Split(lines[Max(named)], ColonSpace)
          IN IF Len(fields) >= 2 THEN fields[2] ELSE Null

\* responseText.split(boundary).filter(...).map(...) of getBytesFromRanges
HelperParts(responseText, boundary) ==
  LET pieces == Split(responseText, boundary)
      kept == SelectSeq(pieces,
                LAMBDA part : Trim(part) # <<>> /\ Trim(part) # Dashes)
  IN [k \in 1..Len(kept) |->
        LET p == Split(kept[k], CRLF \o CRLF)
        IN [n \in 1..Len(p) |-> StripCRLF(p[n])]]

\* the loop over parts of getBytesFromRanges, from part k on
RECURSIVE HelperLoop(_, _, _, _, _, _, _)
HelperLoop(parts, k, offset, arrayBuffers, ranges, responseText, responseBuffer) ==
  IF k > Len(parts) THEN Returned(arrayBuffers)
  ELSE IF Len(parts[k]) < 2 THEN Thrown("TypeError: body is undefined")
  ELSE
    LET header == parts[k][1]
        body == parts[k][2]
        bodyStartIndex == IndexOf(responseText, body, offset)
        bodyArrayBuffer == BufSlice(responseBuffer, bodyStartIndex,
                                    bodyStartIndex + Len(body))
        rangeIndex == getRangeIndex(ranges, PartContentRange(header))
    IN IF rangeIndex.threw THEN rangeIndex
       ELSE HelperLoop(parts, k + 1, bodyStartIndex + Len(body),
                       SetBuffer(arrayBuffers, rangeIndex.value, bodyArrayBuffer),
                       ranges, responseText, responseBuffer)

\* getBytesFromRanges from the line after fetch: the result for the
\* requested ranges and the response
ParseHelperRanges(ranges, resp) ==
  LET arrayBuffers == [i \in 1..Len(ranges) |-> <<>>]
      contentType == IF resp.contentType = Null THEN <<>> ELSE resp.contentType
  IN IF resp.contentType # Null /\ Includes(contentType, OctetStreamName)
       THEN LET rangeIndex == getRangeIndex(ranges, resp.contentRange)
            IN IF rangeIndex.threw THEN rangeIndex
               ELSE Returned(SetBuffer(arrayBuffers, rangeIndex.value, resp.body))
     ELSE IF resp.contentType # Null /\ Includes(contentType, ByteRangesName)
       THEN LET fields == Split(contentType, BoundaryParam)
                boundary == Dashes \o (IF Len(fields) >= 2 THEN fields[2]
                                       ELSE UndefinedText)
                responseText == TextDecode(resp.body)
            IN HelperLoop(HelperParts(responseText, boundary), 1, 0, arrayBuffers,
                          ranges, responseText, resp.body)
     ELSE Returned(arrayBuffers)

\* getBytesFromRanges(url, ranges), up to the await of fetch
getBytesFromRanges(ranges) ==
  /\ pc = "idle"
  /\ op' = "getBytesFromRanges"
  /\ args' = [NoArgs EXCEPT !.ranges = ranges]
  /\ IF ~SomeRange(ranges)
       THEN /\ result' = Returned([i \in 1..Len(ranges) |-> <<>>])
            /\ pc' = "done"
            /\ UNCHANGED requests
       ELSE /\ requests' = Append(requests,
                             [method |-> "GET", range |-> RangeHeader(ranges)])
            /\ pc' = "awaiting"
            /\ UNCHANGED result
  /\ UNCHANGED <<file, response, fsVars, batchVars, cacheVars, scanVars>>
  /\ UNCHANGED loopVars

\* getBytesFromRanges after fetch resolved to a response; the status of the
\* response is not looked at
getBytesFromRangesResponse ==
  /\ pc = "awaiting"
  /\ op = "getBytesFromRanges"
  /\ \E choice \in ResponseChoices :
     LET resp == RangeResponse(file, args.ranges, choice) IN
       /\ response' = resp
       /\ result' = ParseHelperRanges(args.ranges, resp)
       /\ pc' = IF result'.threw THEN "failed" ELSE "done"
  /\ UNCHANGED <<file, op, args, requests, fsVars, batchVars, cacheVars, scanVars>>
  /\ UNCHANGED loopVars

----------------------------------------------------------------------------
(* byteLengthFromUrl *)

\* parseInt of a header value: the leading digits, NaN when there are none
ParseInt(v) ==
  IF DigitRun(v, 0) = <<>> THEN "NaN" ELSE ToNumber(DigitRun(v, 0))

\* the then-callback of byteLengthFromUrl without the test of res.ok
byteLengthResultUnchecked(resp) ==
  IF resp.contentLength = Null THEN Thrown("missing content length")
  ELSE Returned(ParseInt(resp.contentLength))

\* the then-callback of byteLengthFromUrl
byteLengthResult(resp) ==
  IF ~resp.ok THEN Thrown("fetch head failed")
  ELSE IF resp.contentLength = Null THEN Thrown("missing content length")
  ELSE Returned(ParseInt(resp.contentLength))

\* what a server may answer to HEAD: an error status, or success with no
\* Content-Length, an empty one, the length of the file, or a non-number
HeadResponses(f) ==
  {[NoResponse EXCEPT !.kind = "status", !.contentLength = NumStr(Len(f))]}
    \cup {[NoResponse EXCEPT !.kind = "head", !.ok = TRUE, !.contentLength = v] :
            v \in {Null, NumStr(Len(f)), <<"a">>}}

\* byteLengthFromUrl(url), up to fetch
byteLengthFromUrl ==
  /\ pc = "idle"
  /\ op' = "byteLengthFromUrl"
  /\ requests' = Append(requests, [method |-> "HEAD", range |-> <<>>])
  /\ pc' = "awaiting"
  /\ UNCHANGED <<file, args, response, result, fsVars, batchVars, cacheVars, scanVars>>
  /\ UNCHANGED loopVars

\* byteLengthFromUrl after fetch resolved to a response
byteLengthFromUrlResponse ==
  /\ pc = "awaiting"
  /\ op = "byteLengthFromUrl"
  /\ \E resp \in HeadResponses(file) :
       /\ response' = resp
       /\ result' = byteLengthResult(resp)
       /\ pc' = IF result'.threw THEN "failed" ELSE "done"
  /\ UNCHANGED <<file, op, args, requests, fsVars, batchVars, cacheVars, scanVars>>
  /\ UNCHANGED loopVars

----------------------------------------------------------------------------
(* asyncBufferFromUrl: the slice method of the returned buffer *)

\* `bytes=${start}-${endStr}`
SliceRangeHeader(start, end) ==
  BytesEquals \o NumStr(start) \o <<"-">>
    \o (IF end = Undefined THEN <<>> ELSE NumStr(Val(end) - 1))

\* slice after fetch: if (!res.ok || !res.body) throw, else the body
sliceResult(resp) ==
  IF ~resp.ok \/ ~resp.hasBody THEN Thrown("fetch failed") ELSE Returned(resp.body)

\* the bytes a server sends for first-last or first-: the range clipped to
\* the file
ServedBytes(f, start, end) ==
  LET last == IF end = Undefined THEN Len(f) - 1 ELSE Min({Val(end) - 1, Len(f) - 1})
  IN SubSeq(f, start + 1, last + 1)

\* the range of the request can be served: it is first-last or first- with
\* first <= last and first inside the file
Satisfiable(f, start, end) ==
  /\ start >= 0
  /\ start < Len(f)
  /\ end # Undefined => start <= Val(end) - 1

\* what a server may answer to the range request of slice: an error status,
\* success without a body, the requested bytes, or the whole file when it
\* does not take the Range header
SliceResponses(f, start, end) ==
  {[NoResponse EXCEPT !.kind = "status", !.hasBody = TRUE],
   [NoResponse EXCEPT !.kind = "empty", !.ok = TRUE],
   [NoResponse EXCEPT !.kind = "whole", !.ok = TRUE, !.hasBody = TRUE, !.body = f]}
    \cup (IF Satisfiable(f, start, end)
            THEN {[NoResponse EXCEPT !.kind = "range", !.ok = TRUE, !.hasBody = TRUE,
                     !.contentRange = ContentRangeValue(
                        <<start, start + Len(ServedBytes(f, start, end))>>, Len(f)),
                     !.body = ServedBytes(f, start, end)]}
            ELSE {})

\* slice(start, end), up to fetch
slice(start, end) ==
  /\ pc = "idle"
  /\ op' = "slice"
  /\ args' = [NoArgs EXCEPT !.start = start, !.end = end]
  /\ requests' = Append(requests,
                   [method |-> "GET", range |-> SliceRangeHeader(start, end)])
  /\ pc' = "awaiting"
  /\ UNCHANGED <<file, response, result, fsVars, batchVars, cacheVars, scanVars>>
  /\ UNCHANGED loopVars

\* slice after fetch resolved to a response
sliceResponse ==
  /\ pc = "awaiting"
  /\ op = "slice"
  /\ \E resp \in SliceResponses(file, args.start, args.end) :
       /\ response' = resp
       /\ result' = sliceResult(resp)
       /\ pc' = IF result'.threw THEN "failed" ELSE "done"
  /\ UNCHANGED <<file, op, args, requests, fsVars, batchVars, cacheVars, scanVars>>
  /\ UNCHANGED loopVars

----------------------------------------------------------------------------
(* largeFileToAsyncBuffer: the sliceBatch method of the returned buffer *)

ZeroByte == "<00>"

\* fileHandle.read(buffer, 0, length, start) into new Uint8Array(length):
\* the bytes of the file from start, zero where the file has ended
ReadAt(f, start, length) ==
  [i \in 1..length |-> IF start + i <= Len(f) THEN f[start + i] ELSE ZeroByte] \o <<>>

\* sliceBatch(ranges), up to the loop: the file is opened
sliceBatch(ranges) ==
  /\ pc = "idle"
  /\ op' = "sliceBatch"
  /\ args' = [NoArgs EXCEPT !.ranges = ranges]
  /\ handles' = handles + 1
  /\ buffers' = <<>>
  /\ pc' = "reading"
  /\ UNCHANGED <<file, requests, response, result, batchVars, cacheVars, scanVars>>
  /\ UNCHANGED loopVars

\* one round of the loop of sliceBatch: an empty buffer for a null entry,
\* the bytes read from the file for a range
sliceBatchRead ==
  /\ pc = "reading"
  /\ op = "sliceBatch"
  /\ Len(buffers) < Len(args.ranges)
  /\ LET range == args.ranges[Len(buffers) + 1] IN
       IF range = Null
         THEN /\ buffers' = Append(buffers, <<>>)
              /\ UNCHANGED <<pc, result>>
       ELSE IF range[2] - range[1] < 0
         THEN /\ result' = Thrown("RangeError: Invalid typed array length")
              /\ pc' = "failed"
              /\ UNCHANGED buffers
       ELSE /\ buffers' = Append(buffers, ReadAt(file, range[1], range[2] - range[1]))
            /\ UNCHANGED <<pc, result>>
  /\ UNCHANGED <<file, op, args, requests, response, handles, batchVars, cacheVars, scanVars>>
  /\ UNCHANGED loopVars

\* fileHandle.read rejects: sliceBatch throws, the handle is not closed
sliceBatchReadRejects ==
  /\ pc = "reading"
  /\ op = "sliceBatch"
  /\ Len(buffers) < Len(args.ranges)
  /\ args.ranges[Len(buffers) + 1] # Null
  /\ result' = Thrown("read rejected")
  /\ pc' = "failed"
  /\ UNCHANGED <<file, op, args, requests, response, handles, buffers, batchVars, cacheVars, scanVars>>
  /\ UNCHANGED loopVars

\* sliceBatch after the loop: the handle is closed, the buffers returned
sliceBatchClose ==
  /\ pc = "reading"
  /\ op = "sliceBatch"
  /\ Len(buffers) = Len(args.ranges)
  /\ handles' = handles - 1
  /\ result' = Returned(buffers)
  /\ pc' = "done"
  /\ UNCHANGED <<file, op, args, requests, response, buffers, batchVars, cacheVars, scanVars>>
  /\ UNCHANGED loopVars

----------------------------------------------------------------------------
(* the environment of the range readers *)

\* fetch rejects: the request did not get a response
fetchRejects ==
  /\ pc = "awaiting"
  /\ response' = [NoResponse EXCEPT !.kind = "networkError"]
  /\ result' = Thrown("fetch rejected")
  /\ pc' = "failed"
  /\ UNCHANGED <<file, op, args, requests, fsVars, batchVars, cacheVars, scanVars>>
  /\ UNCHANGED loopVars

\* the caching decorator is not in use
IdleCache ==
  /\ byteLength = 0
  /\ cache = [i \in Instances |-> EmptyMap]
  /\ promises = <<>>
  /\ lastCall = NoCall
  /\ calls = 0

InitIO ==
  /\ file \in Files
  /\ op = "none"
  /\ args = NoArgs
  /\ pc = "idle"
  /\ requests = <<>>
  /\ response = NoResponse
  /\ result = NoResult
  /\ handles = 0
  /\ buffers = <<>>
  /\ groups = <<>>
  /\ order = <<>>
  /\ IdleCache
  /\ IdleScan

NextIO ==
  \/ \E ranges \in RangeLists, trust \in BOOLEAN : byteRangesFromUrl(ranges, trust)
  \/ byteRangesFromUrlResponse
  \/ \E ranges \in RangeLists : getBytesFromRanges(ranges)
  \/ getBytesFromRangesResponse
  \/ byteLengthFromUrl
  \/ byteLengthFromUrlResponse
  \/ \E start \in FileStarts, end \in FileEnds : slice(start, end)
  \/ sliceResponse
  \/ \E ranges \in RangeLists : sliceBatch(ranges)
  \/ sliceBatchRead
  \/ sliceBatchReadRejects
  \/ sliceBatchClose
  \/ fetchRejects

SpecIO == InitIO /\ [][NextIO]_vars

\* byteRangesFromUrl against a server that answers with text of its own
InitSniff ==
  /\ file = <<>>
  /\ op = "none"
  /\ args = NoArgs
  /\ pc = "idle"
  /\ requests = <<>>
  /\ response = NoResponse
  /\ result = NoResult
  /\ handles = 0
  /\ buffers = <<>>
  /\ groups = <<>>
  /\ order = <<>>
  /\ IdleCache
  /\ IdleScan

NextSniff ==
  \/ \E ranges \in TextRangeLists, trust \in BOOLEAN : byteRangesFromUrl(ranges, trust)
  \/ byteRangesFromUrlText

SpecSniff == InitSniff /\ [][NextSniff]_vars

----------------------------------------------------------------------------
(* remoteFileToAsyncBuffer: the sliceBatch method of the returned buffer *)

BatchSize == 100

\* chunk(list, size)
chunk(list, size) ==
  [i \in 1..((Len(list) + size - 1) \div size) |->
     SubSeq(list, (i - 1) * size + 1,
            IF i * size < Len(list) THEN i * size ELSE Len(list))] \o <<>>

\* results.flat()
RECURSIVE flat(_)
flat(results) ==
  IF Len(results) = 0 THEN <<>> ELSE Head(results) \o flat(Tail(results))

\* the array a Promise.all over the groups would resolve to if it held the
\* values in the order the requests completed
PromiseAllByCompletion(gs, completed) ==
  [k \in 1..Len(completed) |-> gs[completed[k]].value] \o <<>>

\* the array Promise.all over the groups resolves to: the value of each
\* promise at the index of the promise
PromiseAll(gs, completed) ==
  [g \in 1..Len(gs) |-> gs[g].value] \o <<>>

\* what getBytesFromRanges resolves to for a group when the server sends
\* one part for each requested range: the bytes of the part at the index
\* of the first range of the group that the part names
GroupBuffers(f, group) ==
  [j \in 1..Len(group) |->
     IF group[j] # Null /\ ~\E i \in 1..(j - 1) : group[i] = group[j]
       THEN BufSlice(f, group[j][1], group[j][2])
       ELSE <<>>] \o <<>>

\* sliceBatch(ranges), up to await Promise.all: one getBytesFromRanges call
\* for each group; a call for a group without a range has returned, the
\* others have issued their request
remoteSliceBatch(ranges) ==
  /\ pc = "idle"
  /\ op' = "remoteSliceBatch"
  /\ args' = [NoArgs EXCEPT !.ranges = ranges]
  /\ LET chunks == chunk(ranges, BatchSize)
         fetching == SelectSeq(chunks, SomeRange)
     IN /\ groups' = [g \in 1..Len(chunks) |->
                        IF SomeRange(chunks[g])
                          THEN [ranges |-> chunks[g], state |-> "pending",
                                value |-> <<>>]
                          ELSE [ranges |-> chunks[g], state |-> "fulfilled",
                                value |-> [i \in 1..Len(chunks[g]) |-> <<>>] \o <<>>]]
                       \o <<>>
        /\ requests' = requests \o
             ([k \in 1..Len(fetching) |->
                 [method |-> "GET", range |-> RangeHeader(fetching[k])]] \o <<>>)
  /\ order' = <<>>
  /\ pc' = "gathering"
  /\ UNCHANGED <<file, response, result, fsVars, cacheVars, scanVars>>
  /\ UNCHANGED loopVars

\* the request of group g completes and its getBytesFromRanges call returns
groupReturns(g) ==
  /\ pc = "gathering"
  /\ g \in 1..Len(groups)
  /\ groups[g].state = "pending"
  /\ groups' = [groups EXCEPT ![g].state = "fulfilled",
                              ![g].value = GroupBuffers(file, groups[g].ranges)]
  /\ order' = Append(order, g)
  /\ UNCHANGED <<file, op, args, pc, requests, response, result, fsVars, cacheVars, scanVars>>
  /\ UNCHANGED loopVars

\* the request of group g fails and its getBytesFromRanges call throws
groupThrows(g) ==
  /\ pc = "gathering"
  /\ g \in 1..Len(groups)
  /\ groups[g].state = "pending"
  /\ groups' = [groups EXCEPT ![g].state = "rejected"]
  /\ order' = Append(order, g)
  /\ UNCHANGED <<file, op, args, pc, requests, response, result, fsVars, cacheVars, scanVars>>
  /\ UNCHANGED loopVars

\* await Promise.all(requests) settles: it throws once a group has thrown,
\* and once every group has returned sliceBatch returns results.flat()
remoteSliceBatchSettles ==
  /\ pc = "gathering"
  /\ IF \E g \in 1..Len(groups) : groups[g].state = "rejected"
       THEN /\ result' = Thrown("fetch rejected")
            /\ pc' = "failed"
       ELSE /\ \A g \in 1..Len(groups) : groups[g].state = "fulfilled"
            /\ result' = Returned(flat(PromiseAll(groups, order)))
            /\ pc' = "done"
  /\ UNCHANGED <<file, op, args, requests, response, fsVars, batchVars, cacheVars, scanVars>>
  /\ UNCHANGED loopVars

\* a file whose byte at offset o is o mod 256
BatchFile == [o \in 1..MaxBatch |-> (o - 1) % 256] \o <<>>

\* the lists of ranges sliceBatch is called with: n one-byte ranges, entry
\* i for the byte at offset i - 1, with no null entry, with every second
\* entry null, or with the first BatchSize entries null
BatchLists ==
  {[i \in 1..n |-> <<i - 1, i>>] \o <<>> : n \in 0..MaxBatch}
    \cup {[i \in 1..n |-> IF i % 2 = 0 THEN Null ELSE <<i - 1, i>>] \o <<>> :
            n \in 0..MaxBatch}
    \cup {[i \in 1..n |-> IF i <= BatchSize THEN Null ELSE <<i - 1, i>>] \o <<>> :
            n \in 0..MaxBatch}

InitBatch ==
  /\ file = BatchFile
  /\ op = "none"
  /\ args = NoArgs
  /\ pc = "idle"
  /\ requests = <<>>
  /\ response = NoResponse
  /\ result = NoResult
  /\ handles = 0
  /\ buffers = <<>>
  /\ groups = <<>>
  /\ order = <<>>
  /\ IdleCache
  /\ IdleScan

NextBatch ==
  \/ \E ranges \in BatchLists : remoteSliceBatch(ranges)
  \/ \E g \in 1..Len(groups) : groupReturns(g)
  \/ \E g \in 1..Len(groups) : groupThrows(g)
  \/ remoteSliceBatchSettles

SpecBatch == InitBatch /\ [][NextBatch]_vars

----------------------------------------------------------------------------
(* extent *)

\* value < other and value > other of JavaScript on numbers that may be
\* undefined: a comparison with undefined is false
LessThan(value, other) ==
  value # Undefined /\ other # Undefined /\ Val(value) < Val(other)

GreaterThan(value, other) ==
  value # Undefined /\ other # Undefined /\ Val(value) > Val(other)

\* array[i] of JavaScript, 0-based: undefined past the end
At(array, i) == IF i < Len(array) THEN Def(array[i + 1]) ELSE Undefined

\* the loop of extent from the i-th value on
RECURSIVE ExtentLoop(_, _, _, _)
ExtentLoop(array, i, min, max) ==
  IF i >= Len(array) THEN <<min, max>>
  ELSE LET value == At(array, i)
       IN ExtentLoop(array, i + 1,
                     IF LessThan(value, min) THEN value ELSE min,
                     IF GreaterThan(value, max) THEN value ELSE max)

\* let min, max = array[0] declares min without a value and max as array[0]
extentOf(array) == ExtentLoop(array, 0, Undefined, At(array, 0))

\* the arrays extent is called with
Values == 0..MaxValue

Arrays == SeqsUpTo(Values, MaxArray)

\* extent(array): the call runs to its return in one step
extent(array) ==
  /\ pc = "idle"
  /\ op' = "extent"
  /\ args' = [NoArgs EXCEPT !.array = array]
  /\ result' = Returned(extentOf(array))
  /\ pc' = "done"
  /\ UNCHANGED <<file, requests, response, fsVars, batchVars, cacheVars, scanVars>>
  /\ UNCHANGED loopVars

InitExtent == InitSniff

NextExtent == \E array \in Arrays : extent(array)

SpecExtent == InitExtent /\ [][NextExtent]_vars

----------------------------------------------------------------------------
(* chunk of utils.js *)

\* the chunk sizes: negative, zero, and up to one more than the longest
\* array
ChunkSizes == -1..(MaxArray + 1)

\* more rounds than a loop that advances through the longest array takes
MaxRounds == MaxArray + 1

\* chunk(array, chunkSize), up to the loop: const chunks = [], let i = 0
chunkArray(array, chunkSize) ==
  /\ pc = "idle"
  /\ op' = "chunk"
  /\ args' = [NoArgs EXCEPT !.array = array, !.chunkSize = chunkSize]
  /\ chunkList' = <<>>
  /\ loopIndex' = 0
  /\ pc' = "looping"
  /\ UNCHANGED <<file, requests, response, result, fsVars, batchVars, cacheVars, scanVars>>

\* one round of the loop: i < array.length holds, array.slice(i, i + chunkSize)
\* is pushed and i += chunkSize
chunkPush ==
  /\ pc = "looping"
  /\ op = "chunk"
  /\ loopIndex < Len(args.array)
  /\ Len(chunkList) < MaxRounds
  /\ chunkList' = Append(chunkList,
                    BufSlice(args.array, loopIndex, loopIndex + args.chunkSize))
  /\ loopIndex' = loopIndex + args.chunkSize
  /\ UNCHANGED <<file, op, args, pc, requests, response, result, fsVars, batchVars,
                 cacheVars, scanVars>>

\* i < array.length fails: return chunks
chunkReturn ==
  /\ pc = "looping"
  /\ op = "chunk"
  /\ ~(loopIndex < Len(args.array))
  /\ result' = Returned(chunkList)
  /\ pc' = "done"
  /\ UNCHANGED <<file, op, args, requests, response, fsVars, batchVars, cacheVars,
                 scanVars, loopVars>>

InitChunk == InitSniff

NextChunk ==
  \/ \E array \in Arrays, chunkSize \in ChunkSizes : chunkArray(array, chunkSize)
  \/ chunkPush
  \/ chunkReturn

\* a call that has begun keeps running: the loop takes its next round and
\* returns when its condition fails
SpecChunk == InitChunk /\ [][NextChunk]_vars /\ WF_vars(chunkPush \/ chunkReturn)

----------------------------------------------------------------------------
(* The parquet file of the pushdown reads *)

\* A file is the sequence of its row groups. A row group holds the cells
\* of the id column, ids, and for each column the numbers of rows of its
\* pages, cuts: the pages of a column partition the rows of the row group,
\* each column on its own. Row groups, columns, pages and rows are counted
\* from 0 as the code counts them.

\* null in a decoded page: distinct from every number and from undefined
NullCell == <<0, 0>>

IsNumber(cell) == Len(cell) = 1

\* the values of the id column: below, among and above the values the
\* predicates ask for
Ids == {0, 1, 2}

IdCells == {Def(n) : n \in Ids} \cup {NullCell}

\* the ways to cut n rows into pages
RECURSIVE Compositions(_)
Compositions(n) ==
  IF n = 0 THEN {<<>>}
  ELSE UNION {{<<k>> \o rest : rest \in Compositions(n - k)} : k \in 1..n}

ExactSeqs(S, n) == {q \in SeqsUpTo(S, n) : Len(q) = n}

\* the row groups of n rows
RowGroupsOf(columnCount, n) ==
  {[ids |-> ids, cuts |-> cuts] :
     ids \in ExactSeqs(IdCells, n),
     cuts \in ExactSeqs(Compositions(n), columnCount)}

\* the files of at most groupsLeft row groups and rowsLeft rows, the empty
\* one among them
RECURSIVE TablesOf(_, _, _)
TablesOf(columnCount, groupsLeft, rowsLeft) ==
  IF groupsLeft = 0 \/ rowsLeft = 0 THEN {<<>>}
  ELSE {<<>>} \cup
       UNION {{<<group>> \o rest :
                 group \in RowGroupsOf(columnCount, n),
                 rest \in TablesOf(columnCount, groupsLeft - 1, rowsLeft - n)} :
               n \in 1..rowsLeft}

\* the files of the given number of columns
Tables(columnCount) == TablesOf(columnCount, MaxGroups, MaxRows) \ {<<>>}

\* metadata.schema: the root and the columns
ColumnNames == <<"id", "chromosome", "position_grch37">>

ColumnCount(t) == Len(t[1].cuts)

Schema(t) == <<"schema">> \o SubSeq(ColumnNames, 1, ColumnCount(t))

NumRows(group) == Len(group.ids)

RECURSIVE SumSeq(_)
SumSeq(q) == IF q = <<>> THEN 0 ELSE q[1] + SumSeq(Tail(q))

\* the cell of column c in row r of row group g: the id, or for another
\* column a value that names its column, row group and row
Cell(t, g, c, r) == IF c = 0 THEN t[g + 1].ids[r + 1] ELSE <<c, g, r>>

\* the pages of column c of row group g
PageCount(t, g, c) == Len(t[g + 1].cuts[c + 1])

FirstRowIndex(t, g, c, j) == SumSeq(SubSeq(t[g + 1].cuts[c + 1], 1, j))

PageRows(t, g, c, j) == t[g + 1].cuts[c + 1][j + 1]

PageValues(t, g, c, j) ==
  [k \in 1..PageRows(t, g, c, j) |-> Cell(t, g, c, FirstRowIndex(t, g, c, j) + k - 1)]
    \o <<>>

\* the layout of the file: the magic number, the column chunks of every row
\* group (a dictionary page for the columns that have one, then the data
\* pages, a byte per row), the column indexes, the offset indexes, the
\* footer
Magic == <<"P", "A", "R", "1">>

MagicLength == Len(Magic)

HasDictionary(c) == c > 0

DictionaryLength(c) == IF HasDictionary(c) THEN 1 ELSE 0

ChunkLength(t, g, c) == DictionaryLength(c) + NumRows(t[g + 1])

ChunkNumber(t, g, c) == g * ColumnCount(t) + c

Chunks(t) == {<<g, c>> : g \in 0..Len(t) - 1, c \in 0..ColumnCount(t) - 1}

\* the bytes of the first c column chunks of row group g
ChunksLength(t, g, c) == SumSeq([k \in 1..c |-> ChunkLength(t, g, k - 1)] \o <<>>)

\* the bytes of the first g row groups
RowGroupsLength(t, g) ==
  SumSeq([k \in 1..g |-> ChunksLength(t, k - 1, ColumnCount(t))] \o <<>>)

ChunkOffset(t, g, c) == MagicLength + RowGroupsLength(t, g) + ChunksLength(t, g, c)

DataEnd(t) == MagicLength + RowGroupsLength(t, Len(t))

DictionaryPageOffset(t, g, c) ==
  IF HasDictionary(c) THEN Def(ChunkOffset(t, g, c)) ELSE Undefined

DataPageOffset(t, g, c) == ChunkOffset(t, g, c) + DictionaryLength(c)

PageOffset(t, g, c, j) == DataPageOffset(t, g, c) + FirstRowIndex(t, g, c, j)

ColumnIndexOffset(t, g, c) == DataEnd(t) + ChunkNumber(t, g, c)

OffsetIndexOffset(t, g, c) ==
  DataEnd(t) + Len(t) * ColumnCount(t) + ChunkNumber(t, g, c)

FooterOffset(t) == DataEnd(t) + 2 * Len(t) * ColumnCount(t)

\* the metadata, its length in four bytes, the magic number
FooterLength == 1 + 4 + MagicLength

\* statistics of values: the smallest and the largest number among them,
\* undefined when there is none
Numbers(values) == {Val(values[i]) : i \in {k \in 1..Len(values) : IsNumber(values[k])}}

MinOf(values) ==
  IF Numbers(values) = {} THEN Undefined ELSE Def(Min(Numbers(values)))

MaxOf(values) ==
  IF Numbers(values) = {} THEN Undefined ELSE Def(Max(Numbers(values)))

ChunkValues(t, g, c) == [r \in 1..NumRows(t[g + 1]) |-> Cell(t, g, c, r - 1)] \o <<>>

\* parquetMetadataAsync(file).row_groups[g].columns[c]; the statistics are
\* those of the id column
ColumnChunk(t, g, c) ==
  [column_index_offset |-> ColumnIndexOffset(t, g, c),
   column_index_length |-> 1,
   offset_index_offset |-> OffsetIndexOffset(t, g, c),
   offset_index_length |-> 1,
   dictionary_page_offset |-> DictionaryPageOffset(t, g, c),
   data_page_offset |-> DataPageOffset(t, g, c),
   statistics |-> [min_value |-> MinOf(ChunkValues(t, g, c)),
                   max_value |-> MaxOf(ChunkValues(t, g, c))]]

\* what slice and sliceAll hand back for a range: the bytes of the file
\* from start to end, written as the range they were read from; the empty
\* buffer for null
BytesOf(range) == range

\* readColumnIndex on the bytes of a column index
readColumnIndex(t, buffer) ==
  LET gc == CHOOSE x \in Chunks(t) : ColumnIndexOffset(t, x[1], x[2]) = buffer[1]
      g == gc[1]
      c == gc[2]
      pages == PageCount(t, g, c)
  IN [min_values |-> [j \in 1..pages |-> MinOf(PageValues(t, g, c, j - 1))] \o <<>>,
      max_values |-> [j \in 1..pages |-> MaxOf(PageValues(t, g, c, j - 1))] \o <<>>,
      null_pages |-> [j \in 1..pages |->
                        \A k \in 1..PageRows(t, g, c, j - 1) :
                          PageValues(t, g, c, j - 1)[k] = NullCell] \o <<>>]

\* readOffsetIndex on the bytes of an offset index
readOffsetIndex(t, buffer) ==
  LET gc == CHOOSE x \in Chunks(t) : OffsetIndexOffset(t, x[1], x[2]) = buffer[1]
      g == gc[1]
      c == gc[2]
  IN [page_locations |->
        [j \in 1..PageCount(t, g, c) |->
           [offset |-> PageOffset(t, g, c, j - 1),
            compressed_page_size |-> PageRows(t, g, c, j - 1),
            first_row_index |-> FirstRowIndex(t, g, c, j - 1)]] \o <<>>]

\* the pages of the file with their places
Pages(t) ==
  UNION {{[rowGroup |-> gc[1], column |-> gc[2], page |-> j] :
            j \in 0..PageCount(t, gc[1], gc[2]) - 1} : gc \in Chunks(t)}

\* readPage on the bytes of a data page, the dictionary before them
readPage(t, dictionary, buffer) ==
  LET p == CHOOSE x \in Pages(t) :
             PageOffset(t, x.rowGroup, x.column, x.page) = buffer[1]
  IN PageValues(t, p.rowGroup, p.column, p.page)

----------------------------------------------------------------------------
(* Page-level predicate pushdown: the reads of the index tests *)

\* the number a value turns into in a comparison: null is 0, undefined and
\* text are NaN, written undefined
NumberOf(value) ==
  IF IsNumber(value) THEN value
  ELSE IF value = NullCell THEN Def(0)
  ELSE Undefined

\* a <= b of JavaScript
LessOrEqual(a, b) ==
  /\ NumberOf(a) # Undefined
  /\ NumberOf(b) # Undefined
  /\ Val(NumberOf(a)) <= Val(NumberOf(b))

\* predicate = (min, max) => predicateValues.some(v => min <= v && v <= max)
predicate(predicateValues, min, max) ==
  \E i \in 1..Len(predicateValues) :
    /\ LessOrEqual(min, Def(predicateValues[i]))
    /\ LessOrEqual(Def(predicateValues[i]), max)

\* array.indexOf(value), -1 when the value is not there
ArrayIndexOf(array, value) ==
  IF \E i \in 1..Len(array) : array[i] = value
    THEN Min({i \in 1..Len(array) : array[i] = value}) - 1
    ELSE -1

\* findColumnIndex = name => metadata.schema.findIndex(el => el.name === name) - 1
findColumnIndex(t, name) == ArrayIndexOf(Schema(t), name) - 1

columnNameIndexes(t, q) ==
  [i \in 1..Len(q.columns) |-> findColumnIndex(t, q.columns[i])] \o <<>>

predicateColumnIndex(t) == findColumnIndex(t, "id")

\* every row group, whatever its statistics
rowGroupsUnfiltered(t, q) == [g \in 1..Len(t) |-> g - 1] \o <<>>

\* the row groups whose statistics of the predicate column fulfill the
\* predicate, by their index in metadata.row_groups
rowGroups(t, q) ==
  SelectSeq([g \in 1..Len(t) |-> g - 1] \o <<>>,
            LAMBDA g :
              LET statistics == ColumnChunk(t, g, predicateColumnIndex(t)).statistics
              IN predicate(q.predicateValues, statistics.min_value, statistics.max_value))

\* the places of the column index, the offset index and the dictionary of
\* one column of one row group
IndexLocation(t, rowGroupIndex, columnNameIndex) ==
  LET column == ColumnChunk(t, rowGroupIndex, columnNameIndex)
      dictionaryOffset == column.dictionary_page_offset
  IN [rowGroup |-> rowGroupIndex,
      column |-> columnNameIndex,
      columnIndex |-> <<column.column_index_offset,
                        column.column_index_offset + column.column_index_length>>,
      offsetIndex |-> <<column.offset_index_offset,
                        column.offset_index_offset + column.offset_index_length>>,
      dictionary |-> IF dictionaryOffset # Undefined /\ Val(dictionaryOffset) # 0
                       THEN <<Val(dictionaryOffset), column.data_page_offset>>
                       ELSE Null]

indexLocations(t, q) ==
  LET groupList == rowGroups(t, q)
      columnList == columnNameIndexes(t, q)
  IN flat([i \in 1..Len(groupList) |->
             [k \in 1..Len(columnList) |->
                IndexLocation(t, groupList[i], columnList[k])] \o <<>>] \o <<>>)

\* the pages of every located column with their place and their statistics
columnPageData(t, locations) ==
  flat([i \in 1..Len(locations) |->
          LET location == locations[i]
              columnIndex == readColumnIndex(t, BytesOf(location.columnIndex))
              offsetIndex == readOffsetIndex(t, BytesOf(location.offsetIndex))
          IN [j \in 1..Len(offsetIndex.page_locations) |->
                [rowGroup |-> location.rowGroup,
                 column |-> location.column,
                 page |-> j - 1,
                 dictionary |-> BytesOf(location.dictionary),
                 offset |-> offsetIndex.page_locations[j].offset,
                 length |-> offsetIndex.page_locations[j].compressed_page_size,
                 minValue |-> columnIndex.min_values[j],
                 maxValue |-> columnIndex.max_values[j]]] \o <<>>] \o <<>>)

\* the pages of the predicate column, whatever their statistics
filteredColumnPageDataUnfiltered(t, q, pageList) ==
  SelectSeq(pageList, LAMBDA p : p.column = predicateColumnIndex(t))

\* the pages of the predicate column that fulfill the predicate
filteredColumnPageData(t, q, pageList) ==
  SelectSeq(pageList,
            LAMBDA p : /\ p.column = predicateColumnIndex(t)
                       /\ predicate(q.predicateValues, p.minValue, p.maxValue))

\* groupBy(filteredColumnPageData, p => p.rowGroup)[rowGroup]: undefined
\* when no page of the row group is among them
rowGroupPages(filtered, rowGroup) ==
  SelectSeq(filtered, LAMBDA p : p.rowGroup = rowGroup)

\* the pages to fetch: those whose page number is the number of a
\* fulfilling page of the predicate column in their row group; the filter
\* throws on a page of a row group that has no entry in rowGroupPages
pagesToFetch(t, q, pageList) ==
  LET filtered == filteredColumnPageData(t, q, pageList)
  IN IF \E i \in 1..Len(pageList) : rowGroupPages(filtered, pageList[i].rowGroup) = <<>>
       THEN Thrown("TypeError: Cannot read properties of undefined (reading 'find')")
       ELSE Returned(SelectSeq(pageList,
              LAMBDA page :
                LET found == rowGroupPages(filtered, page.rowGroup)
                IN \E k \in 1..Len(found) : found[k].page = page.page))

\* the pages fetched, each with its decoded values
parsedPagesOf(t, pageList) ==
  [i \in 1..Len(pageList) |->
     [page |-> pageList[i],
      data |-> readPage(t, pageList[i].dictionary,
                        BytesOf(<<pageList[i].offset,
                                  pageList[i].offset + pageList[i].length>>))]] \o <<>>

\* a.page.rowGroup - b.page.rowGroup || a.page.page - b.page.page
\*   || a.page.column - b.page.column
ByRowGroupPageColumn(a, b) ==
  \/ a.page.rowGroup < b.page.rowGroup
  \/ /\ a.page.rowGroup = b.page.rowGroup
     /\ \/ a.page.page < b.page.page
        \/ a.page.page = b.page.page /\ a.page.column < b.page.column

\* a.page.rowGroup - b.page.rowGroup || a.page.column - b.page.column
\*   || a.page.page - b.page.page
ByRowGroupColumnPage(a, b) ==
  \/ a.page.rowGroup < b.page.rowGroup
  \/ /\ a.page.rowGroup = b.page.rowGroup
     /\ \/ a.page.column < b.page.column
        \/ a.page.column = b.page.column /\ a.page.page < b.page.page

\* compare(a, b) < 0 for the comparator of the test file
Precedes(suite, a, b) ==
  IF suite = "indexes.pushdown" THEN ByRowGroupPageColumn(a, b)
  ELSE ByRowGroupColumnPage(a, b)

\* array.sort(compare) with the comparator of the test file; elements that
\* compare equal keep their order
Sort(array, suite) ==
  LET rank(i) ==
        Cardinality({j \in 1..Len(array) :
                       \/ Precedes(suite, array[j], array[i])
                       \/ ~Precedes(suite, array[i], array[j]) /\ j < i}) + 1
  IN [n \in 1..Len(array) |-> array[CHOOSE i \in 1..Len(array) : rank(i) = n]] \o <<>>

\* the rows whose cell of the predicate column fulfills the predicate
FilterRows(q, rows) ==
  LET resultsPredicateColumnIndex == ArrayIndexOf(q.columns, "id")
  IN SelectSeq(rows,
       LAMBDA row : predicate(q.predicateValues,
                              row[resultsPredicateColumnIndex + 1],
                              row[resultsPredicateColumnIndex + 1]))

\* columnOrder: for each requested column the place of its index among
\* the sorted indexes of the requested columns
columnOrder(t, q) ==
  LET indexes == columnNameIndexes(t, q)
      columnOrderValues == {indexes[i] : i \in 1..Len(indexes)}
  IN [i \in 1..Len(indexes) |->
        Cardinality({v \in columnOrderValues : v < indexes[i]})] \o <<>>

\* indexes.pushdown.test.js: the loop over the sorted pages in blocks of
\* columns.length pages, from the i-th page on; the j-th page of a block
\* fills the column columnOrder[j] of the rows of the block
RECURSIVE BlockRows(_, _, _, _, _)
BlockRows(q, parsedPages, i, places, data) ==
  IF i >= Len(parsedPages) THEN Returned(data)
  ELSE
    LET width == Len(q.columns)
        height == Len(parsedPages[i + 1].data)
        missing(j) == i + j >= Len(parsedPages)
        overlong(j) == ~missing(j) /\ Len(parsedPages[i + j + 1].data) > height
        failing == {j \in 0..width - 1 : missing(j) \/ overlong(j)}
    IN IF failing # {}
         THEN IF missing(Min(failing))
                THEN Thrown("TypeError: Cannot read properties of undefined (reading 'data')")
                ELSE Thrown("TypeError: Cannot set properties of undefined")
         ELSE
           LET writers(k, pos) ==
                 {j \in 0..width - 1 :
                    places[j + 1] = pos /\ k <= Len(parsedPages[i + j + 1].data)}
               rowGroupData ==
                 [k \in 1..height |->
                    [pos \in 1..width |->
                       IF writers(k, pos - 1) = {} THEN NullCell
                       ELSE parsedPages[i + Max(writers(k, pos - 1)) + 1].data[k]] \o <<>>]
                   \o <<>>
           IN BlockRows(q, parsedPages, i + width, places,
                        data \o FilterRows(q, rowGroupData))

\* readIndices.test.js: every sorted page is written below the earlier
\* pages of its column, into the column at its place among the requested
\* columns
OffsetRows(t, q, parsedPages) ==
  LET width == Len(q.columns)
      lengths == [i \in 1..Len(parsedPages) |-> Len(parsedPages[i].data)] \o <<>>
      total == SumSeq(lengths)
      totalRows == total \div width
      rowOffset(i) ==
        SumSeq([n \in 1..i - 1 |->
                  IF parsedPages[n].page.column = parsedPages[i].page.column
                    THEN lengths[n] ELSE 0] \o <<>>)
      columnOffset(i) == ArrayIndexOf(columnNameIndexes(t, q), parsedPages[i].page.column)
      writers(r, pos) ==
        {i \in 1..Len(parsedPages) :
           /\ columnOffset(i) = pos
           /\ rowOffset(i) <= r
           /\ r < rowOffset(i) + lengths[i]}
  IN IF total % width # 0
       THEN Thrown("RangeError: Invalid array length")
     ELSE IF \E i \in 1..Len(parsedPages) : rowOffset(i) + lengths[i] > totalRows
       THEN Thrown("TypeError: Cannot set properties of undefined")
     ELSE Returned(FilterRows(q,
            [r \in 1..totalRows |->
               [pos \in 1..width |->
                  IF writers(r - 1, pos - 1) = {} THEN NullCell
                  ELSE LET i == Max(writers(r - 1, pos - 1))
                       IN parsedPages[i].data[r - rowOffset(i)]] \o <<>>] \o <<>>))

\* the rows a pushdown read puts together from the pages it fetched
assemble(t, q, pageList) ==
  IF q.suite = "indexes.pushdown"
    THEN BlockRows(q, Sort(parsedPagesOf(t, pageList), q.suite), 0,
                   columnOrder(t, q), <<>>)
    ELSE OffsetRows(t, q, Sort(parsedPagesOf(t, pageList), q.suite))

\* the queries of the pushdown reads: the requested columns in the order
\* they are asked for, the values of the predicate on the id column
ColumnLists == {<<"id", "chromosome">>, <<"chromosome", "id">>}

\* three requested columns in every order
ColumnOrders ==
  {<<"id", "chromosome", "position_grch37">>,
   <<"id", "position_grch37", "chromosome">>,
   <<"chromosome", "id", "position_grch37">>,
   <<"chromosome", "position_grch37", "id">>,
   <<"position_grch37", "id", "chromosome">>,
   <<"position_grch37", "chromosome", "id">>}

\* the columns of the file that the column lists ask for
Width(lists) == Max({Len(columns) : columns \in lists})

PredicateLists == {<<1>>, <<0, 2>>}

\* the two test files
Suites == {"indexes.pushdown", "readIndices"}

\* a log entry for slice(start, end) and for sliceAll(ranges)
SliceCall(start, end) == [method |-> "slice", ranges |-> <<<<start, end>>>>]

SliceAllCall(ranges) == [method |-> "sliceAll", ranges |-> ranges]

\* parquetMetadataAsync(file): the footer is read
MetadataCall(t) == SliceCall(FooterOffset(t), FooterOffset(t) + FooterLength)

\* the test 'performs page-level predicate pushdown and retrieves data from
\* adjacent columns' up to the metadata
pushdown(columns, predicateValues, suite) ==
  /\ pc = "idle"
  /\ op' = "pushdown"
  /\ query' = [NoQuery EXCEPT !.columns = columns, !.predicateValues = predicateValues,
                 !.suite = suite]
  /\ reads' = <<MetadataCall(table)>>
  /\ pc' = "metadata"
  /\ UNCHANGED <<table, scan, args, result, file, requests, response,
                 fsVars, batchVars, cacheVars>>
  /\ UNCHANGED loopVars

\* after the metadata: the row groups are chosen and the column indexes,
\* offset indexes and dictionaries of their columns are fetched
pushdownIndexes ==
  /\ pc = "metadata"
  /\ op = "pushdown"
  /\ \E locations \in {indexLocations(table, query)} :
       /\ scan' = [scan EXCEPT !.indexLocations = locations]
       /\ reads' = reads \o
            <<SliceAllCall([i \in 1..Len(locations) |-> locations[i].columnIndex] \o <<>>),
              SliceAllCall([i \in 1..Len(locations) |-> locations[i].offsetIndex] \o <<>>),
              SliceAllCall([i \in 1..Len(locations) |-> locations[i].dictionary] \o <<>>)>>
  /\ pc' = "indexes"
  /\ UNCHANGED <<table, query, op, args, result, file, requests, response,
                 fsVars, batchVars, cacheVars>>
  /\ UNCHANGED loopVars

\* after the indexes: the pages are chosen and fetched, or the choice throws
pushdownPages ==
  /\ pc = "indexes"
  /\ op = "pushdown"
  /\ \E chosen \in {pagesToFetch(table, query,
                                   columnPageData(table, scan.indexLocations))} :
       IF chosen.threw
         THEN /\ result' = chosen
              /\ pc' = "failed"
              /\ UNCHANGED <<scan, reads>>
         ELSE /\ scan' = [scan EXCEPT !.pages = chosen.value]
              /\ reads' = Append(reads,
                   SliceAllCall([i \in 1..Len(chosen.value) |->
                                   <<chosen.value[i].offset,
                                     chosen.value[i].offset + chosen.value[i].length>>]
                                  \o <<>>))
              /\ pc' = "pages"
              /\ UNCHANGED result
  /\ UNCHANGED <<table, query, op, args, file, requests, response,
                 fsVars, batchVars, cacheVars>>
  /\ UNCHANGED loopVars

\* after the pages: they are decoded, sorted and put together into rows
pushdownRows ==
  /\ pc = "pages"
  /\ op = "pushdown"
  /\ result' = assemble(table, query, scan.pages)
  /\ pc' = IF result'.threw THEN "failed" ELSE "done"
  /\ UNCHANGED <<table, query, scan, reads, op, args, file, requests, response,
                 fsVars, batchVars, cacheVars>>
  /\ UNCHANGED loopVars

\* a < b of JavaScript
Less(a, b) ==
  /\ NumberOf(a) # Undefined
  /\ NumberOf(b) # Undefined
  /\ Val(NumberOf(a)) < Val(NumberOf(b))

\* indexes.pushdown.test.js:
\*   predicate = (min, max) => +min <= maxValue && minValue <= +max
\* readIndices.test.js:
\*   predicate = (min, max) => !(maxValue < Number(min) || Number(max) < minValue)
rangePredicate(q, min, max) ==
  IF q.suite = "indexes.pushdown"
    THEN /\ LessOrEqual(min, Def(q.maxValue))
         /\ LessOrEqual(Def(q.minValue), max)
    ELSE ~(Less(Def(q.maxValue), min) \/ Less(max, Def(q.minValue)))

\* the test 'retrieves column index data and reads a single page' up to
\* the metadata
singlePage(minValue, maxValue, suite) ==
  /\ pc = "idle"
  /\ op' = "singlePage"
  /\ query' = [NoQuery EXCEPT !.columns = <<"id">>, !.minValue = minValue,
                 !.maxValue = maxValue, !.suite = suite]
  /\ reads' = <<MetadataCall(table)>>
  /\ pc' = "metadata"
  /\ UNCHANGED <<table, scan, args, result, file, requests, response,
                 fsVars, batchVars, cacheVars>>
  /\ UNCHANGED loopVars

\* after the metadata: the first row group whose statistics fulfill the
\* predicate is looked up, its column index and then its offset index are
\* read; without such a row group, group is undefined and group.columns
\* throws
singlePageIndexes ==
  /\ pc = "metadata"
  /\ op = "singlePage"
  /\ LET columnNameIndex == findColumnIndex(table, "id")
         fulfilling ==
           {g \in 0..Len(table) - 1 :
              LET statistics == ColumnChunk(table, g, columnNameIndex).statistics
              IN rangePredicate(query, statistics.min_value, statistics.max_value)}
     IN IF fulfilling = {}
          THEN /\ result' = Thrown("TypeError: Cannot read properties of undefined (reading 'columns')")
               /\ pc' = "failed"
               /\ UNCHANGED <<scan, reads>>
          ELSE \E location \in {IndexLocation(table, Min(fulfilling), columnNameIndex)} :
                 /\ scan' = [scan EXCEPT !.indexLocations = <<location>>]
                 /\ reads' = reads \o
                      <<SliceCall(location.columnIndex[1], location.columnIndex[2]),
                        SliceCall(location.offsetIndex[1], location.offsetIndex[2])>>
                 /\ pc' = "indexes"
                 /\ UNCHANGED result
  /\ UNCHANGED <<table, query, op, args, file, requests, response,
                 fsVars, batchVars, cacheVars>>
  /\ UNCHANGED loopVars

\* after the indexes: the first page whose statistics fulfill the predicate
\* is read; without such a page, pageLocation is undefined and
\* pageLocation.offset throws
singlePagePage ==
  /\ pc = "indexes"
  /\ op = "singlePage"
  /\ LET pageList == columnPageData(table, scan.indexLocations)
         fulfilling == {i \in 1..Len(pageList) :
                          rangePredicate(query, pageList[i].minValue, pageList[i].maxValue)}
     IN IF fulfilling = {}
          THEN /\ result' = Thrown("TypeError: Cannot read properties of undefined (reading 'offset')")
               /\ pc' = "failed"
               /\ UNCHANGED <<scan, reads>>
          ELSE \E page \in {pageList[Min(fulfilling)]} :
                 /\ scan' = [scan EXCEPT !.pages = <<page>>]
                 /\ reads' = Append(reads, SliceCall(page.offset, page.offset + page.length))
                 /\ pc' = "pages"
                 /\ UNCHANGED result
  /\ UNCHANGED <<table, query, op, args, file, requests, response,
                 fsVars, batchVars, cacheVars>>
  /\ UNCHANGED loopVars

\* after the page: it is decoded and its values are filtered
singlePageRows ==
  /\ pc = "pages"
  /\ op = "singlePage"
  /\ LET page == scan.pages[1]
         pageData == readPage(table, Null, BytesOf(<<page.offset, page.offset + page.length>>))
     IN result' = Returned(SelectSeq(pageData, LAMBDA x : rangePredicate(query, x, x)))
  /\ pc' = "done"
  /\ UNCHANGED <<table, query, scan, reads, op, args, file, requests, response,
                 fsVars, batchVars, cacheVars>>
  /\ UNCHANGED loopVars

InitPushdown ==
  /\ table \in Tables(Width(ColumnLists))
  /\ loopIndex = 0
  /\ chunkList = <<>>
  /\ query = NoQuery
  /\ scan = NoScan
  /\ reads = <<>>
  /\ file = <<>>
  /\ op = "none"
  /\ args = NoArgs
  /\ pc = "idle"
  /\ requests = <<>>
  /\ response = NoResponse
  /\ result = NoResult
  /\ handles = 0
  /\ buffers = <<>>
  /\ groups = <<>>
  /\ order = <<>>
  /\ IdleCache

NextPushdown ==
  \/ \E columns \in ColumnLists, predicateValues \in PredicateLists,
        suite \in Suites : pushdown(columns, predicateValues, suite)
  \/ pushdownIndexes
  \/ pushdownPages
  \/ pushdownRows
  \/ \E predicateValues \in PredicateLists, suite \in Suites :
       singlePage(predicateValues[1], predicateValues[Len(predicateValues)], suite)
  \/ singlePageIndexes
  \/ singlePagePage
  \/ singlePageRows

SpecPushdown == InitPushdown /\ [][NextPushdown]_vars

\* the pushdown read of three columns, asked for in every order
InitColumns ==
  /\ table \in Tables(Width(ColumnOrders))
  /\ loopIndex = 0
  /\ chunkList = <<>>
  /\ query = NoQuery
  /\ scan = NoScan
  /\ reads = <<>>
  /\ file = <<>>
  /\ op = "none"
  /\ args = NoArgs
  /\ pc = "idle"
  /\ requests = <<>>
  /\ response = NoResponse
  /\ result = NoResult
  /\ handles = 0
  /\ buffers = <<>>
  /\ groups = <<>>
  /\ order = <<>>
  /\ IdleCache

NextColumns ==
  \/ \E columns \in ColumnOrders, predicateValues \in PredicateLists,
        suite \in Suites : pushdown(columns, predicateValues, suite)
  \/ pushdownIndexes
  \/ pushdownPages
  \/ pushdownRows

SpecColumns == InitColumns /\ [][NextColumns]_vars

----------------------------------------------------------------------------
(* The byte-range sources of a local file: asyncBufferFromFile,            *)
(* fileToAsyncBuffer and largeFileToAsyncBuffer                            *)

\* the start and end arguments of slice on a local file
Offsets == 0..MaxFileLen

\* the bytes a stream of fs.createReadStream(filename, { start, end })
\* delivers: both start and end are inclusive positions, and the stream
\* ends where the file ends
ReadStreamBytes(f, start, end) ==
  SubSeq(f, start + 1, Min({end + 1, Len(f)}))

\* asyncBufferFromFile(filename).slice(start, end), up to the stream's
\* events; createReadStream throws when start > end
asyncBufferFromFileSlice(start, end) ==
  /\ pc = "idle"
  /\ op' = "asyncBufferFromFile.slice"
  /\ args' = [NoArgs EXCEPT !.start = start, !.end = Def(end)]
  /\ IF start > end
       THEN /\ result' = Thrown("RangeError [ERR_OUT_OF_RANGE]: The value of \"start\" is out of range")
            /\ pc' = "failed"
            /\ UNCHANGED handles
       ELSE /\ pc' = "reading"
            /\ handles' = handles + 1
            /\ UNCHANGED result
  /\ UNCHANGED <<file, requests, response, buffers, batchVars, cacheVars, scanVars>>
  /\ UNCHANGED loopVars

\* readStreamToArrayBuffer: the stream ends, the chunks are concatenated
readStreamToArrayBuffer ==
  /\ pc = "reading"
  /\ op = "asyncBufferFromFile.slice"
  /\ result' = Returned(ReadStreamBytes(file, args.start, Val(args.end)))
  /\ handles' = handles - 1
  /\ pc' = "done"
  /\ UNCHANGED <<file, op, args, requests, response, buffers, batchVars, cacheVars, scanVars>>
  /\ UNCHANGED loopVars

\* readStreamToArrayBuffer: the stream emits 'error', the promise rejects
readStreamError ==
  /\ pc = "reading"
  /\ op = "asyncBufferFromFile.slice"
  /\ result' = Thrown("read stream error")
  /\ handles' = handles - 1
  /\ pc' = "failed"
  /\ UNCHANGED <<file, op, args, requests, response, buffers, batchVars, cacheVars, scanVars>>
  /\ UNCHANGED loopVars

\* fileToAsyncBuffer(filePath).slice(start, end), up to readFile
fileToAsyncBufferSlice(start, end) ==
  /\ pc = "idle"
  /\ op' = "fileToAsyncBuffer.slice"
  /\ args' = [NoArgs EXCEPT !.start = start, !.end = Def(end)]
  /\ pc' = "reading"
  /\ UNCHANGED <<file, requests, response, result, fsVars, batchVars, cacheVars, scanVars>>
  /\ UNCHANGED loopVars

\* readFileToArrayBuffer resolved: the slice of the whole file
readFileToArrayBuffer ==
  /\ pc = "reading"
  /\ op = "fileToAsyncBuffer.slice"
  /\ result' = Returned(BufSlice(file, args.start, Val(args.end)))
  /\ pc' = "done"
  /\ UNCHANGED <<file, op, args, requests, response, fsVars, batchVars, cacheVars, scanVars>>
  /\ UNCHANGED loopVars

\* fs.promises.readFile rejects
readFileRejects ==
  /\ pc = "reading"
  /\ op = "fileToAsyncBuffer.slice"
  /\ result' = Thrown("readFile rejected")
  /\ pc' = "failed"
  /\ UNCHANGED <<file, op, args, requests, response, fsVars, batchVars, cacheVars, scanVars>>
  /\ UNCHANGED loopVars

\* largeFileToAsyncBuffer(filePath).slice(start, end), up to the read: the
\* file is opened
largeFileSlice(start, end) ==
  /\ pc = "idle"
  /\ op' = "largeFileToAsyncBuffer.slice"
  /\ args' = [NoArgs EXCEPT !.start = start, !.end = Def(end)]
  /\ handles' = handles + 1
  /\ pc' = "reading"
  /\ UNCHANGED <<file, requests, response, result, buffers, batchVars, cacheVars, scanVars>>
  /\ UNCHANGED loopVars

\* slice after the open: the buffer of end - start bytes is filled by one
\* positioned read, the handle is closed and the buffer returned
largeFileSliceRead ==
  /\ pc = "reading"
  /\ op = "largeFileToAsyncBuffer.slice"
  /\ LET length == Val(args.end) - args.start IN
       IF length < 0
         THEN /\ result' = Thrown("RangeError: Invalid typed array length")
              /\ pc' = "failed"
              /\ UNCHANGED handles
         ELSE /\ result' = Returned(ReadAt(file, args.start, length))
              /\ handles' = handles - 1
              /\ pc' = "done"
  /\ UNCHANGED <<file, op, args, requests, response, buffers, batchVars, cacheVars, scanVars>>
  /\ UNCHANGED loopVars

\* fileHandle.read rejects: slice throws, the handle is not closed
largeFileSliceReadRejects ==
  /\ pc = "reading"
  /\ op = "largeFileToAsyncBuffer.slice"
  /\ Val(args.end) - args.start >= 0
  /\ result' = Thrown("read rejected")
  /\ pc' = "failed"
  /\ UNCHANGED <<file, op, args, requests, response, fsVars, batchVars, cacheVars, scanVars>>
  /\ UNCHANGED loopVars

\* another process truncates the file after the source was constructed
fileShrinks ==
  /\ pc \in {"idle", "reading"}
  /\ \E n \in 0..(Len(file) - 1) : file' = SubSeq(file, 1, n)
  /\ UNCHANGED <<op, args, pc, requests, response, result, fsVars, batchVars, cacheVars, scanVars>>
  /\ UNCHANGED loopVars

InitFile == InitIO

NextFile ==
  \/ \E start \in Offsets, end \in Offsets : asyncBufferFromFileSlice(start, end)
  \/ readStreamToArrayBuffer
  \/ readStreamError
  \/ \E start \in Offsets, end \in Offsets : fileToAsyncBufferSlice(start, end)
  \/ readFileToArrayBuffer
  \/ readFileRejects
  \/ \E start \in Offsets, end \in Offsets : largeFileSlice(start, end)
  \/ largeFileSliceRead
  \/ largeFileSliceReadRejects
  \/ \E ranges \in RangeLists : sliceBatch(ranges)
  \/ sliceBatchRead
  \/ sliceBatchReadRejects
  \/ sliceBatchClose
  \/ fileShrinks

SpecFile == InitFile /\ [][NextFile]_vars

----------------------------------------------------------------------------
(* Properties of the caching decorator *)

\* C1: on one cachedAsyncBuffer the wrapped slice is invoked at most once
\* per canonical key, and every caller of a key (whether the read is
\* pending, fulfilled or rejected) receives the promise of that one read.
C1_OneReadPerKey ==
  /\ \A p, q \in 1..Len(promises) :
        (/\ promises[p].inst = promises[q].inst
         /\ PromiseKey(promises[p]) = PromiseKey(promises[q])) => p = q
  /\ lastCall.outcome \in {"hit", "miss"} =>
        /\ lastCall.promise \in 1..Len(promises)
        /\ promises[lastCall.promise].inst = lastCall.inst
        /\ PromiseKey(promises[lastCall.promise]) = lastCall.key

\* a second caller was handed the promise of a read that had already failed
C1_Witness ==
  /\ lastCall.outcome = "hit"
  /\ promises[lastCall.promise].state = "rejected"

\* The three forms of the byte range [start, size) of a file of byteLength
\* size: absolute, open-ended and suffix.
KeysOfForms(start, size) ==
  <<cacheKey(start, Def(size), Def(size)),
    cacheKey(start, Undefined, Def(size)),
    cacheKey(start - size, Undefined, Def(size))>>

\* C2 as stated: for every 0 <= start <= size the absolute range
\* (start, size), the open-ended range (start, undefined) and the suffix
\* range (start - size, undefined) have the same cache key.
C2_Original ==
  \A start \in 0..byteLength :
    LET k == KeysOfForms(start, byteLength)
    IN /\ \A i \in 1..3 : ~k[i].threw
       /\ k[1].value = k[2].value
       /\ k[2].value = k[3].value

\* C2 as amended: the three forms have the same key for 0 <= start < size;
\* for start = size only the absolute and the open-ended form agree.
C2_KeyFormsAgree ==
  /\ \A start \in 0..(byteLength - 1) :
       LET k == KeysOfForms(start, byteLength)
       IN /\ \A i \in 1..3 : ~k[i].threw
          /\ k[1].value = k[2].value
          /\ k[2].value = k[3].value
  /\ LET k == KeysOfForms(byteLength, byteLength)
     IN ~k[1].threw /\ ~k[2].threw /\ k[1].value = k[2].value

\* a suffix-range call was served from the entry of an absolute-range call
C2_Witness ==
  /\ lastCall.outcome = "hit"
  /\ lastCall.start < 0
  /\ promises[lastCall.promise].start >= 0
  /\ promises[lastCall.promise].end = Def(byteLength)

\* C3: slice(start, end) with start < 0 and end defined throws, without
\* calling the wrapped slice and without changing the cache.
C3_SuffixWithEndThrows ==
  [][(calls' = calls + 1 /\ lastCall'.start < 0 /\ lastCall'.end # Undefined)
       => (/\ lastCall'.outcome = "threw"
           /\ cache' = cache
           /\ promises' = promises)]_vars

\* a call with a negative start and a defined end has thrown
C3_Witness ==
  /\ lastCall.outcome = "threw"
  /\ lastCall.start < 0
  /\ lastCall.end # Undefined

\* An invalid byte range: start > end, or a negative length once an
\* omitted end is resolved against the file size.
InvalidRange(start, end, size) ==
  \/ end # Undefined /\ start > Val(end)
  \/ end = Undefined /\ start > size
  \/ end = Undefined /\ start < 0 /\ (0 - start) > size

\* C4: every call of the decorator's slice with an invalid byte range
\* throws, before any wrapped read and without a new cache entry.
C4_InvalidRangeRejected ==
  (lastCall.outcome # "none"
     /\ InvalidRange(lastCall.start, lastCall.end, byteLength))
    => lastCall.outcome = "threw"

----------------------------------------------------------------------------
(* Properties of the range readers *)

\* byteRangesFromUrl returned for a response with an ok status
RangesReturned ==
  /\ op = "byteRangesFromUrl"
  /\ pc = "done"
  /\ response.ok

\* the boundary byteRangesFromUrl works with for the response
DetectedBoundary ==
  IF args.trustContentType THEN HeaderBoundary(response.contentType)
  ELSE SniffBoundary(TextDecode(response.body))

\* the requested range i lies inside the range part k declares
ServedBy(i, k) ==
  /\ response.parts[k].declared
  /\ response.parts[k].range[1] <= args.ranges[i][1]
  /\ args.ranges[i][2] <= response.parts[k].range[2]

Served(i) ==
  /\ args.ranges[i] # Null
  /\ \E k \in 1..Len(response.parts) : ServedBy(i, k)

Unserved(i) ==
  /\ args.ranges[i] # Null
  /\ ~\E k \in 1..Len(response.parts) : ServedBy(i, k)

\* C5: byteRangesFromUrl on a well-formed multipart body returns, for
\* every requested range that lies inside the declared range of a part,
\* exactly the bytes of the file in that range, whatever the bytes are.
C5_MultipartExactBytes ==
  (/\ RangesReturned
   /\ response.kind = "multipart"
   /\ \A k \in 1..Len(response.parts) : response.parts[k].declared)
    => \A i \in 1..Len(args.ranges) :
         Served(i) => result.value[i] =
                        BufSlice(file, args.ranges[i][1], args.ranges[i][2])

\* the sum of the lengths of the non-null ranges before index i
RECURSIVE LengthBefore(_, _)
LengthBefore(ranges, i) ==
  IF i <= 1 THEN 0
  ELSE LengthBefore(ranges, i - 1)
         + (IF ranges[i - 1] = Null THEN 0
            ELSE ranges[i - 1][2] - ranges[i - 1][1])

\* C6: when byteRangesFromUrl detects no boundary, the result for a
\* non-null range is the segment of the body of the range's length that
\* begins at the sum of the lengths of the earlier non-null ranges.
C6_BlobCumulativeOffsets ==
  (RangesReturned /\ SomeRange(args.ranges) /\ DetectedBoundary = Null)
    => \A i \in 1..Len(args.ranges) :
         args.ranges[i] # Null =>
           result.value[i] =
             BufSlice(response.body, LengthBefore(args.ranges, i),
                      LengthBefore(args.ranges, i)
                        + args.ranges[i][2] - args.ranges[i][1])

BatchReaders == {"byteRangesFromUrl", "sliceBatch", "getBytesFromRanges"}

\* C7: a list returned by byteRangesFromUrl, largeFileToAsyncBuffer's
\* sliceBatch or getBytesFromRanges has one buffer per input entry, an
\* empty buffer at every null entry, and for sliceBatch the bytes read for
\* entry i at index i.
C7_BatchCountAndNulls ==
  (op \in BatchReaders /\ pc = "done")
    => /\ ~result.threw
       /\ Len(result.value) = Len(args.ranges)
       /\ \A i \in 1..Len(args.ranges) :
            /\ args.ranges[i] = Null => result.value[i] = <<>>
            /\ (op = "sliceBatch" /\ args.ranges[i] # Null) =>
                 result.value[i] = ReadAt(file, args.ranges[i][1],
                                          args.ranges[i][2] - args.ranges[i][1])

\* getBytesFromRanges returned a list with a null entry first and bytes
\* second, from a response with a part for a range that was not requested
C7_Witness ==
  /\ op = "getBytesFromRanges"
  /\ pc = "done"
  /\ Len(args.ranges) = 2
  /\ args.ranges[1] = Null
  /\ result.value[2] # <<>>
  /\ \E k \in 1..Len(response.parts) :
       response.parts[k].declared /\ response.parts[k].range # args.ranges[2]

\* the requested ranges with the unserved ones replaced by null
ServedOnly ==
  [i \in 1..Len(args.ranges) |->
     IF Unserved(i) THEN Null ELSE args.ranges[i]]

\* C9: in multipart mode byteRangesFromUrl does not throw, returns an
\* empty buffer for every requested range that no part with a
\* Content-Range header contains, and returns at the other indices what it
\* returns when the unserved ranges are not requested.
C9_UnservedRangeEmpty ==
  (/\ op = "byteRangesFromUrl"
   /\ response.kind = "multipart"
   /\ DetectedBoundary # Null)
    => /\ pc = "done"
       /\ ~result.threw
       /\ \A i \in 1..Len(args.ranges) : Unserved(i) => result.value[i] = <<>>
       /\ LET others == ParseRanges(ServedOnly, response.body,
                                    response.contentType, args.trustContentType)
          IN \A i \in 1..Len(args.ranges) :
               ~Unserved(i) => result.value[i] = others.value[i]

\* a range that straddles two parts came back empty next to a served one
C9_Witness ==
  /\ RangesReturned
  /\ response.kind = "multipart"
  /\ Len(response.parts) = 2
  /\ \E i, j \in 1..Len(args.ranges) :
       /\ Unserved(i)
       /\ args.ranges[i][1] < response.parts[1].range[2]
       /\ args.ranges[i][2] > response.parts[2].range[1]
       /\ result.value[i] = <<>>
       /\ Served(j)
       /\ result.value[j] # <<>>

\* C8: remoteFileToAsyncBuffer's sliceBatch asks for the ranges in groups
\* of at most 100 that together are the input list, and whatever the order
\* in which the group requests complete, it returns one buffer per input
\* entry, with the bytes fetched for entry i at index i.
C8_BatchOrderPreserved ==
  op = "remoteSliceBatch" =>
    /\ \A g \in 1..Len(groups) : Len(groups[g].ranges) <= BatchSize
    /\ flat([g \in 1..Len(groups) |-> groups[g].ranges] \o <<>>) = args.ranges
    /\ pc = "done" =>
         /\ Len(result.value) = Len(args.ranges)
         /\ \A i \in 1..Len(args.ranges) :
              result.value[i] =
                IF args.ranges[i] = Null THEN <<>>
                ELSE BufSlice(file, args.ranges[i][1], args.ranges[i][2])

\* sliceBatch returned for three groups whose requests completed last to
\* first
C8_Witness ==
  /\ op = "remoteSliceBatch"
  /\ pc = "done"
  /\ Len(groups) = 3
  /\ order = <<3, 2, 1>>
  /\ Len(result.value) = Len(args.ranges)

HttpReaders == {"byteLengthFromUrl", "byteRangesFromUrl", "slice"}

\* the request failed: no response, a status that is not ok, or for
\* byteLengthFromUrl no Content-Length
RequestFailed ==
  /\ response.kind # "none"
  /\ \/ ~response.ok
     \/ op = "byteLengthFromUrl" /\ response.contentLength = Null

\* C10: when the request of byteLengthFromUrl, byteRangesFromUrl or
\* asyncBufferFromUrl's slice fails, the call throws, returns nothing, and
\* has made exactly one request.
C10_FailedRequestFatal ==
  (op \in HttpReaders /\ RequestFailed)
    => /\ pc = "failed"
       /\ result.threw
       /\ Len(requests) = 1

\* byteLengthFromUrl threw on a response with status ok and no
\* Content-Length, after one request
C10_Witness ==
  /\ op = "byteLengthFromUrl"
  /\ response.ok
  /\ response.contentLength = Null
  /\ pc = "failed"
  /\ Len(requests) = 1

----------------------------------------------------------------------------
(* Properties of the Range headers *)

\* What a byte-range-spec of a Range header denotes by the grammar of HTTP
\* range requests: first-last, first- (to the end of the file), -length
\* (the last length bytes), or nothing when it has none of these forms.
ByteRangeSpec(r) ==
  LET first == DigitRun(r, 0)
      last == DigitRun(r, Len(first) + 1)
  IN IF Len(first) >= 1
       THEN IF ~StartsWithAt(r, <<"-">>, Len(first)) THEN <<"invalid">>
            ELSE IF Len(first) + 1 + Len(last) # Len(r) THEN <<"invalid">>
            ELSE IF Len(last) = 0 THEN <<"from", ToNumber(first)>>
            ELSE <<"range", ToNumber(first), ToNumber(last)>>
     ELSE IF StartsWithAt(r, <<"-">>, 0) /\ Len(DigitRun(r, 1)) >= 1
               /\ 1 + Len(DigitRun(r, 1)) = Len(r)
       THEN <<"suffix", ToNumber(DigitRun(r, 1))>>
     ELSE <<"invalid">>

\* the byte-range-specs of a Range header with the unit bytes
RangeSpecs(header) ==
  IF ~StartsWithAt(header, BytesEquals, 0) THEN <<>>
  ELSE LET specs == Split(Substring(header, Len(BytesEquals), Len(header)), <<",">>)
       IN [k \in 1..Len(specs) |-> ByteRangeSpec(specs[k])] \o <<>>

\* C11: asyncBufferFromUrl's slice issues one request, and its Range header
\* denotes first-last = start-(end - 1) for 0 <= start < end, start- when
\* end is omitted and start >= 0, and the suffix of -start bytes when end is
\* omitted and start < 0.
C11_SliceRangeHeader ==
  op = "slice" =>
    /\ Len(requests) = 1
    /\ LET denoted == RangeSpecs(requests[1].range) IN
         /\ (args.end # Undefined /\ 0 <= args.start /\ args.start < Val(args.end))
              => denoted = <<<<"range", args.start, Val(args.end) - 1>>>>
         /\ (args.end = Undefined /\ args.start >= 0)
              => denoted = <<<<"from", args.start>>>>
         /\ (args.end = Undefined /\ args.start < 0)
              => denoted = <<<<"suffix", 0 - args.start>>>>

\* C12: byteRangesFromUrl issues one request when a range is non-null, its
\* Range header naming start-(end - 1) for the non-null ranges in input
\* order; with no non-null range it issues no request and returns an empty
\* buffer for every entry.
C12_OneMultiRangeRequest ==
  op = "byteRangesFromUrl" =>
    IF SomeRange(args.ranges)
      THEN /\ Len(requests) = 1
           /\ requests[1].method = "GET"
           /\ RangeSpecs(requests[1].range) =
                [k \in 1..Len(NonNull(args.ranges)) |->
                   <<"range", NonNull(args.ranges)[k][1],
                     NonNull(args.ranges)[k][2] - 1>>] \o <<>>
      ELSE /\ requests = <<>>
           /\ pc = "done"
           /\ result = Returned([i \in 1..Len(args.ranges) |-> <<>>] \o <<>>)

\* byteRangesFromUrl returned after one request for two ranges around a null
C12_Witness ==
  /\ op = "byteRangesFromUrl"
  /\ pc = "done"
  /\ Len(args.ranges) = 2
  /\ args.ranges[1] # Null
  /\ args.ranges[2] # Null
  /\ args.ranges[1] # args.ranges[2]
  /\ Len(requests) = 1

----------------------------------------------------------------------------
(* Properties of the boundary sniffing *)

\* the first line of a text: what comes before its first line terminator
FirstLine(s) ==
  LET ends == {i \in 1..Len(s) : IsLineTerminator(s[i])}
  IN IF ends = {} THEN s ELSE SubSeq(s, 1, Min(ends) - 1)

\* The X for which the first line of the trimmed body is '--X', X is not
\* empty and has no whitespace, and the trimmed body ends with '--X--';
\* null when there is none.
FirstLineBoundary(body) ==
  LET trimmed == Trim(body)
      line == FirstLine(trimmed)
      X == SubSeq(line, 3, Len(line))
  IN IF /\ Len(line) >= 3
        /\ line[1] = "-"
        /\ line[2] = "-"
        /\ \A i \in 1..Len(X) : ~IsSpace(X[i])
        /\ Len(trimmed) >= Len(X) + 4
        /\ SubSeq(trimmed, Len(trimmed) - Len(X) - 3, Len(trimmed))
             = <<"-", "-">> \o X \o <<"-", "-">>
       THEN X
       ELSE Null

\* C13: without trustContentType byteRangesFromUrl splits the body as
\* multipart with boundary X exactly when the trimmed body's first line is
\* '--X', X non-empty and free of whitespace, and the trimmed body ends
\* with '--X--'; otherwise every non-null range gets the body sliced as
\* one blob.
C13_SniffFirstAndLastLine ==
  (op = "byteRangesFromUrl" /\ response.kind = "text" /\ ~args.trustContentType)
    => LET X == FirstLineBoundary(TextDecode(response.body))
           text == TextDecode(response.body)
           empty == [i \in 1..Len(args.ranges) |-> <<>>] \o <<>>
       IN /\ DetectedBoundary = X
          /\ result =
               IF X # Null
                 THEN PartsLoop(MultipartParts(text, X), 1, 0, empty, args.ranges,
                                text, response.body)
                 ELSE Returned([i \in 1..Len(args.ranges) |->
                                  IF args.ranges[i] = Null THEN <<>>
                                  ELSE BufSlice(response.body, args.ranges[i][1],
                                                args.ranges[i][2])] \o <<>>)

\* a body with delimiter lines that does not begin with one was handled as
\* a blob, and a body that begins and ends as multipart was split
C13_WitnessBlob ==
  /\ op = "byteRangesFromUrl"
  /\ response.kind = "text"
  /\ ~args.trustContentType
  /\ response.body = <<"a", "\n", "-", "-", "a", "\n", "-", "-", "a", "-", "-">>
  /\ result.value[1] # <<>>

C13_Witness ==
  /\ op = "byteRangesFromUrl"
  /\ response.kind = "text"
  /\ ~args.trustContentType
  /\ FirstLineBoundary(TextDecode(response.body)) = <<"a">>
  /\ Len(args.ranges) = 1
  /\ result = Returned(<<<<>>>>)

----------------------------------------------------------------------------
(* Properties of the file handles *)

\* C20: a sliceBatch call on a local file has exactly one handle open
\* while it reads, and none is open once the call has completed, whether
\* it returned or a positioned read failed.
C20_HandleClosedOnCompletion ==
  (op = "sliceBatch")
    => /\ pc = "reading" => handles = 1
       /\ pc \in {"done", "failed"} => handles = 0

----------------------------------------------------------------------------
(* Properties of extent *)

\* the numbers of an array
Elements(array) == {array[i] : i \in 1..Len(array)}

\* C19: for a non-empty array extent returns the pair of its smallest and
\* its largest element.
C19_ExtentIsMinMax ==
  (op = "extent" /\ pc = "done" /\ args.array # <<>>)
    => result = Returned(<<Def(Min(Elements(args.array))),
                           Def(Max(Elements(args.array)))>>)

\* what the calls do return: the maximum is there, the minimum is undefined
C19_MinUndefined ==
  (op = "extent" /\ pc = "done" /\ args.array # <<>>)
    => result = Returned(<<Undefined, Def(Max(Elements(args.array)))>>)

----------------------------------------------------------------------------
(* Properties of the pushdown reads *)

\* the predicate of the read that is under way, on a pair of bounds
Fulfills(min, max) ==
  IF op = "singlePage" THEN rangePredicate(query, min, max)
  ELSE predicate(query.predicateValues, min, max)

\* the bytes of page j of column c of row group g
PageRange(g, c, j) ==
  <<PageOffset(table, g, c, j), PageOffset(table, g, c, j) + PageRows(table, g, c, j)>>

Overlap(a, b) == a[1] < b[2] /\ b[1] < a[2]

Within(a, b) == b[1] <= a[1] /\ a[2] <= b[2]

\* the ranges asked for by the calls from the n-th on, null entries aside
RangesFrom(n) ==
  UNION {{reads[i].ranges[k] : k \in {m \in 1..Len(reads[i].ranges) :
                                         reads[i].ranges[m] # Null}} :
           i \in n..Len(reads)}

\* page j of the id column of row group g fulfills the predicate on its
\* statistics
PageFulfills(g, j) ==
  Fulfills(MinOf(PageValues(table, g, 0, j)), MaxOf(PageValues(table, g, 0, j)))

\* the statistics of the id column of row group g fulfill the predicate
RowGroupFulfills(g) ==
  Fulfills(MinOf(ChunkValues(table, g, 0)), MaxOf(ChunkValues(table, g, 0)))

\* C14: bytes of a page of the predicate column are requested only if the
\* predicate holds on the page's (min_values[i], max_values[i]): no read
\* overlaps the range of a page of that column that fails the predicate.
C14_OnlyFulfillingPagesRead ==
  (op \in {"pushdown", "singlePage"})
    => \A requested \in {RangesFrom(1)} :
         \A g \in 0..Len(table) - 1 : \A j \in 0..PageCount(table, g, 0) - 1 :
           (\E r \in requested : Overlap(r, PageRange(g, 0, j))) => PageFulfills(g, j)

\* a pushdown read fetched a page of the id column next to a page of the
\* same row group that fails the predicate
C14_Witness ==
  /\ op = "pushdown"
  /\ pc = "done"
  /\ \E g \in 0..Len(table) - 1 : \E j, k \in 0..PageCount(table, g, 0) - 1 :
       /\ PageFulfills(g, j)
       /\ PageRange(g, 0, j) \in RangesFrom(2)
       /\ ~PageFulfills(g, k)

\* what a read may ask for in row group g: the column index, the offset
\* index, the dictionary page and the data pages of its columns
RowGroupRanges(g) ==
  UNION {{<<ColumnIndexOffset(table, g, c), ColumnIndexOffset(table, g, c) + 1>>,
          <<OffsetIndexOffset(table, g, c), OffsetIndexOffset(table, g, c) + 1>>,
          <<ChunkOffset(table, g, c), DataPageOffset(table, g, c)>>}
         \cup {PageRange(g, c, j) : j \in 0..PageCount(table, g, c) - 1} :
           c \in 0..ColumnCount(table) - 1}

\* C15: after the metadata read every requested range (column index,
\* offset index, dictionary, data page) lies in a row group whose
\* statistics of the predicate column fulfill the predicate.
C15_OnlyFulfillingRowGroupsRead ==
  (op \in {"pushdown", "singlePage"})
    => \A allowed \in {UNION {RowGroupRanges(g) :
                                 g \in {h \in 0..Len(table) - 1 : RowGroupFulfills(h)}}} :
         \A r \in RangesFrom(2) : \E o \in allowed : Within(r, o)

\* a pushdown read went through the indexes and pages of one row group of
\* a file that has another row group whose statistics fail the predicate
C15_Witness ==
  /\ op = "pushdown"
  /\ pc = "done"
  /\ Len(reads) = 5
  /\ \E g, h \in 0..Len(table) - 1 : RowGroupFulfills(g) /\ ~RowGroupFulfills(h)

\* the pages a pushdown read has chosen to fetch
Chosen(g, c, j) ==
  \E i \in 1..Len(scan.pages) :
    /\ scan.pages[i].rowGroup = g
    /\ scan.pages[i].column = c
    /\ scan.pages[i].page = j

\* page j of the id column of row group g holds nothing but nulls
NullPage(g, j) ==
  \A k \in 1..PageRows(table, g, 0, j) : PageValues(table, g, 0, j)[k] = NullCell

\* C16: a page with null_pages[i] true is never pruned: once the pages of
\* the chosen row groups have been chosen, every null page of the
\* predicate column in those row groups is among them.
C16_NullPagesSelected ==
  (op = "pushdown" /\ pc \in {"pages", "done"})
    => \A g \in 0..Len(table) - 1 : \A j \in 0..PageCount(table, g, 0) - 1 :
         (RowGroupFulfills(g) /\ NullPage(g, j)) => Chosen(g, 0, j)

\* the requested columns by their index in the file
Requested == {findColumnIndex(table, query.columns[i]) : i \in 1..Len(query.columns)}

\* row r of row group g is in a chosen page of column c
RowChosen(g, c, r) ==
  \E j \in 0..PageCount(table, g, c) - 1 :
    /\ Chosen(g, c, j)
    /\ FirstRowIndex(table, g, c, j) <= r
    /\ r < FirstRowIndex(table, g, c, j) + PageRows(table, g, c, j)

\* C17: for each chosen page of the predicate column, covering the rows
\* r0 to r1, the pages chosen from every other requested column cover all
\* the rows r0 to r1, whatever the page boundaries of that column.
C17_SiblingPagesRowAligned ==
  (op = "pushdown" /\ pc \in {"pages", "done", "failed"} /\ scan.pages # <<>>)
    => \A g \in 0..Len(table) - 1 : \A j \in 0..PageCount(table, g, 0) - 1 :
         Chosen(g, 0, j)
           => \A c \in Requested :
                \A r \in FirstRowIndex(table, g, 0, j)..
                         FirstRowIndex(table, g, 0, j) + PageRows(table, g, 0, j) - 1 :
                  RowChosen(g, c, r)

\* the rows of the whole file with the cells of the requested columns in
\* the requested order, and those of them that pass the row filter
AllRows ==
  flat([g \in 1..Len(table) |->
          [r \in 1..NumRows(table[g]) |->
             [i \in 1..Len(query.columns) |->
                Cell(table, g - 1, findColumnIndex(table, query.columns[i]), r - 1)]
               \o <<>>] \o <<>>] \o <<>>)

FullScan == FilterRows(query, AllRows)

\* C18: the rows of a pushdown read are those of a full scan followed by
\* the same row filter: every fulfilling row once, no other row, a cell
\* for every requested column.
C18_RowsEqualFullScan ==
  (op = "pushdown" /\ pc \in {"done", "failed"}) => result = Returned(FullScan)

----------------------------------------------------------------------------
(* Properties of the local-file sources *)

\* the slice methods of the three local-file sources
FileSlices == {"asyncBufferFromFile.slice", "fileToAsyncBuffer.slice",
               "largeFileToAsyncBuffer.slice"}

\* a buffer handed back for the range [start, end) is whole: it has at
\* least the bytes asked for and none of them is padding
Whole(buffer, start, end) ==
  /\ Len(buffer) >= end - start
  /\ \A i \in 1..Len(buffer) : buffer[i] # ZeroByte

\* C21: a range read of a local file that completed without error handed
\* back, for every requested range, a whole buffer: when the file has
\* become shorter than a requested range the read fails, it never returns
\* a short or zero-padded buffer.
C21_ShortReadFails ==
  /\ (op \in FileSlices /\ pc = "done")
       => Whole(result.value, args.start, Val(args.end))
  /\ (op = "sliceBatch" /\ pc = "done")
       => \A i \in 1..Len(args.ranges) :
            args.ranges[i] # Null
              => Whole(result.value[i], args.ranges[i][1], args.ranges[i][2])

\* C23: for 0 <= start <= end <= file length, slice(start, end) of each of
\* the three local-file sources returns exactly the end - start bytes
\* file[start, end).
C23_FileSlicesAgree ==
  (/\ op \in FileSlices
   /\ pc = "done"
   /\ args.start <= Val(args.end)
   /\ Val(args.end) <= Len(file))
    => result = Returned(SubSeq(file, args.start + 1, Val(args.end)))

----------------------------------------------------------------------------
(* Properties of the row assembly *)

\* the column a cell of a decoded page comes from; a null cell does not
\* tell its column
ColumnOf(cell) == IF IsNumber(cell) THEN 0 ELSE cell[1]

\* C22: in every row a completed pushdown read returns, cell p holds a
\* value of the column named columns[p] (or null), for every order of the
\* requested columns.
C22_RequestedColumnOrder ==
  (op = "pushdown" /\ pc = "done")
    => \A r \in 1..Len(result.value) :
         \A p \in 1..Len(query.columns) :
           LET cell == result.value[r][p]
           IN cell # NullCell
                => ColumnOf(cell) = findColumnIndex(table, query.columns[p])

----------------------------------------------------------------------------
(* Properties of the decorator's instances *)

\* C24: a slice on one cachedAsyncBuffer instance adds at most its own key
\* to that instance's cache and leaves the cache of every other instance
\* unchanged; a key that instance has not cached issues a read of the
\* wrapped source for that instance, whatever the other instances hold.
C24_InstancesShareNothing ==
  [][(calls' = calls + 1)
       => LET inst == lastCall'.inst
          IN /\ \A i \in Instances \ {inst} : cache'[i] = cache[i]
             /\ DOMAIN cache'[inst] \subseteq DOMAIN cache[inst] \cup {lastCall'.key}
             /\ (lastCall'.outcome # "threw" /\ lastCall'.key \notin DOMAIN cache[inst])
                  => /\ lastCall'.outcome = "miss"
                     /\ Len(promises') = Len(promises) + 1
                     /\ promises'[Len(promises')].inst = inst
                     /\ cache'[inst][lastCall'.key] = Len(promises')]_vars

\* both instances hold the same key, each with the promise of its own read
C24_Witness ==
  \E k \in DOMAIN cache[1] \cap DOMAIN cache[2] :
    /\ cache[1][k] # cache[2][k]
    /\ promises[cache[1][k]].inst = 1
    /\ promises[cache[2][k]].inst = 2

----------------------------------------------------------------------------
(* Properties of the page selection *)

\* the statistics of row group g fulfill the predicate and those of none
\* of its pages of the id column do
Starved(g) ==
  /\ RowGroupFulfills(g)
  /\ \A j \in 0..PageCount(table, g, 0) - 1 : ~PageFulfills(g, j)

\* C25: when the file has a row group whose statistics of the predicate
\* column fulfill the predicate while none of its pages of that column
\* does, the page selection of the pushdown read completes without error
\* and selects no page of that row group.
C25_StarvedRowGroupSelectsNothing ==
  (/\ op = "pushdown"
   /\ pc \in {"pages", "done", "failed"}
   /\ \E g \in 0..Len(table) - 1 : Starved(g))
    => /\ ~pagesToFetch(table, query, columnPageData(table, scan.indexLocations)).threw
       /\ \A g \in 0..Len(table) - 1 :
            Starved(g) => \A i \in 1..Len(scan.pages) : scan.pages[i].rowGroup # g

----------------------------------------------------------------------------
(* Properties of chunk *)

\* the chunks are the array cut in order into pieces of chunkSize elements,
\* the last one possibly shorter
Chunked(chunked, array, chunkSize) ==
  /\ flat(chunked) = array
  /\ \A k \in 1..Len(chunked) - 1 : Len(chunked[k]) = chunkSize

\* C26: every call of chunk(array, chunkSize) returns, also for chunkSize 0
\* and negative: every round of the loop brings i closer to array.length,
\* and a call that has begun reaches its return; the chunks it returns
\* concatenate in order to the array, each but the last has chunkSize
\* elements, and for chunkSize >= 1 they are the chunks of the test
\* helper's chunk(list, size).
C26_ChunkTerminates ==
  /\ [][(op = "chunk" /\ pc = "looping" /\ pc' = "looping")
          => Len(args.array) - loopIndex' < Len(args.array) - loopIndex]_vars
  /\ [](op = "chunk" => <>(pc = "done"))
  /\ []((op = "chunk" /\ pc = "done")
         => /\ Chunked(result.value, args.array, args.chunkSize)
            /\ args.chunkSize >= 1 => result.value = chunk(args.array, args.chunkSize))

====
